---- MODULE Spec2Model ----
(***************************************************************************)
(* Model of the Figma "email HTML" plugin (jmlud/figma-email-html-plugin). *)
(*                                                                         *)
(* The repository holds several revisions of the same renderer.  Two are   *)
(* modelled here, each operator carrying the revision it is taken from:    *)
(*   _cta : src/code.ts lines 1-685 (CTA confirmation round trip,          *)
(*          placeholder images, final markup cleanup);                     *)
(*   _img : src/unnamed/part_000 lines 307-734 (three image export modes,  *)
(*          asset list and counter, width budget, container flattening).   *)
(*                                                                         *)
(* Markup is modelled as a sequence of elements (a string is the           *)
(* concatenation of its elements, the empty string is <<>>).  Every        *)
(* element records the design node on whose behalf it was emitted (ref).   *)
(* Inline style strings and colours are not part of an element.            *)
(***************************************************************************)
EXTENDS Integers, Sequences, FiniteSets, TLC

(***************************************************************************)
(* Geometry.  Figma coordinates are floating point; lengths are modelled   *)
(* as integer multiples of 1/Unit pixel so that Math.round is not the      *)
(* identity.                                                               *)
(***************************************************************************)
Unit == 2

Px(n) == n * Unit

\* Math.round(x) = floor(x + 0.5), on a length v = x * Unit; the result is
\* again a length (a whole number of pixels).
Round(v) == Unit * ((2 * v + Unit) \div (2 * Unit))

Min(a, b) == IF a <= b THEN a ELSE b

Max(a, b) == IF a >= b THEN a ELSE b

(***************************************************************************)
(* Markup elements.                                                        *)
(***************************************************************************)
NoDim == <<"none", 0>>

PxDim(v) == <<"px", v>>

PctDim(v) == <<"pct", v>>

\* tag: table | tr | td | img | p | a | span | text
\* cls: which template of the source produced the element
\* ref: id of the node the element was emitted for
\* num: the n of images/image-n.png (0 when the element names no asset)
\* txt: character content (a sequence of one-character strings / entities)
El(tag, cls, ref, w, h, num, txt, kids) ==
  [tag |-> tag, cls |-> cls, ref |-> ref, w |-> w, h |-> h, num |-> num,
   txt |-> txt, kids |-> kids]

Nbsp == <<"&nbsp;">>

(***************************************************************************)
(* Design nodes (the read-only scene graph).                               *)
(***************************************************************************)
ContainerTypes == {"FRAME", "GROUP", "COMPONENT", "INSTANCE"}

\* layoutMode "ABSENT": the node has no layoutMode property (groups, leaves).
\* fills: "none" | "solid" | "image" (the first visible paint).
\* stroke: the node has a visible solid stroke of non-zero rounded weight.
\* segments: what getStyledTextSegments returns for a text node.
BaseNode ==
  [id |-> "n", type |-> "RECTANGLE", visible |-> TRUE,
   y |-> 0, width |-> Px(100), height |-> Px(20),
   layoutMode |-> "ABSENT",
   paddingTop |-> 0, paddingBottom |-> 0, paddingLeft |-> 0, paddingRight |-> 0,
   itemSpacing |-> 0, primaryAxisAlignItems |-> "MIN",
   fills |-> "none", stroke |-> FALSE,
   segments |-> <<>>, children |-> <<>>, parentIsPage |-> FALSE]

Shape(id, type, visible, y, height, fills) ==
  [BaseNode EXCEPT !.id = id, !.type = type, !.visible = visible, !.y = y,
                   !.height = height, !.fills = fills]

Segment(chars, font) == [characters |-> chars, fontName |-> font]

Text(id, visible, y, height, segs) ==
  [BaseNode EXCEPT !.id = id, !.type = "TEXT", !.visible = visible, !.y = y,
                   !.height = height, !.fills = "solid", !.segments = segs]

Box(id, type, visible, y, height, layoutMode, fills, kids) ==
  [BaseNode EXCEPT !.id = id, !.type = type, !.visible = visible, !.y = y,
                   !.height = height, !.width = Px(200),
                   !.layoutMode = layoutMode, !.fills = fills, !.children = kids]

RECURSIVE Flatten(_)
Flatten(ss) == IF ss = <<>> THEN <<>> ELSE Head(ss) \o Flatten(Tail(ss))

\* node.characters of a text node
Characters(node) == Flatten([i \in 1..Len(node.segments) |-> node.segments[i].characters])

\* node.fontName of a text node: figma.mixed when the runs differ in font
FontName(node) ==
  IF node.segments = <<>> THEN "Inter"
  ELSE IF \A i \in 1..Len(node.segments) : node.segments[i].fontName = node.segments[1].fontName
       THEN node.segments[1].fontName
       ELSE "mixed"

(***************************************************************************)
(* Program constants.                                                      *)
(***************************************************************************)
\* the width of a root container and of the multi-selection table
PageWidth == 600

\* gaps of at most this many pixels are treated as rounding noise
GapTolerance == 2

\* a container wider than this is rendered fluid (width="100%")
FluidWidth == 450

\* nodeWidth / parentWidth > 0.95, in percent
FluidRatio == 95

(***************************************************************************)
(* Text helpers.                                                           *)
(***************************************************************************)
\* the members of a sequence
Range(seq) == {seq[i] : i \in 1..Len(seq)}

IsSpace(c) == c \in {" ", "\n"}

RECURSIVE TrimLeft(_)
TrimLeft(s) == IF s # <<>> /\ IsSpace(Head(s)) THEN TrimLeft(Tail(s)) ELSE s

RECURSIVE TrimRight(_)
TrimRight(s) ==
  IF s # <<>> /\ IsSpace(s[Len(s)]) THEN TrimRight(SubSeq(s, 1, Len(s) - 1)) ELSE s

\* String.prototype.trim
Trim(s) == TrimRight(TrimLeft(s))

\* the keys of bulletCharacterMap; "U+2022" stands for the bullet glyph
BulletGlyphs == {"U+2022", "*", "-"}

bulletCharacterMap(c) == IF c = "-" THEN "&#8211;" ELSE "&#8226;"

\* .replace(/&/g,"&amp;").replace(/</g,"&lt;").replace(/>/g,"&gt;").replace(/\n/g,"<br />")
EscapeChar(c) ==
  CASE c = "&" -> "&amp;"
    [] c = "<" -> "&lt;"
    [] c = ">" -> "&gt;"
    [] c = "\n" -> "<br />"
    [] OTHER -> c

Escape(s) == [i \in 1..Len(s) |-> EscapeChar(s[i])]

\* bulletCharacterMap[sanitizedChars.trim()] || sanitizedChars
BulletEntity(sanitized) ==
  LET t == Trim(sanitized)
  IN IF Len(t) = 1 /\ t[1] \in BulletGlyphs THEN <<bulletCharacterMap(t[1])>> ELSE sanitized

(***************************************************************************)
(* Node classifier (shared by both revisions unless marked).               *)
(***************************************************************************)
IsVisible(c) == c.visible

VisibleChildren(node) == SelectSeq(node.children, IsVisible)

RECURSIVE InsertByY(_, _)
InsertByY(n, s) ==
  IF s = <<>> THEN <<n>>
  ELSE IF n.y <= Head(s).y THEN <<n>> \o s
  ELSE <<Head(s)>> \o InsertByY(n, Tail(s))

Unsorted(nodes) == nodes

\* [...nodes].sort((a, b) => a.y - b.y): a stable sort
RECURSIVE SortByY(_)
SortByY(s) == IF s = <<>> THEN <<>> ELSE InsertByY(Head(s), SortByY(Tail(s)))

\* any frame or group of two children
isContainerOfTwo(node) ==
  /\ node.type \in {"FRAME", "GROUP"}
  /\ Len(node.children) = 2

isPotentialCta(node) ==
  /\ node.type \in {"FRAME", "GROUP"}
  /\ Len(node.children) = 2
  /\ \E i \in 1..2 : node.children[i].type = "TEXT"
  /\ \E i \in 1..2 : node.children[i].type \in {"RECTANGLE", "ELLIPSE"}

\* any visible horizontal frame of two texts
isHorizontalTextPair(node) ==
  /\ node.type = "FRAME"
  /\ node.visible
  /\ node.layoutMode = "HORIZONTAL"
  /\ Len(node.children) = 2
  /\ node.children[1].type = "TEXT"
  /\ node.children[2].type = "TEXT"

isBulletPoint(node) ==
  /\ node.type = "FRAME"
  /\ node.visible
  /\ node.layoutMode = "HORIZONTAL"
  /\ Len(node.children) = 2
  /\ node.children[1].type = "TEXT"
  /\ node.children[2].type = "TEXT"
  /\ LET bulletChar == Trim(Characters(node.children[1]))
     IN Len(bulletChar) = 1 /\ bulletChar[1] \in BulletGlyphs

RECURSIVE isVectorial(_)
isVectorial(n) ==
  IF n.type \notin ContainerTypes \/ n.children = <<>>
  THEN n.type \in {"VECTOR", "ELLIPSE", "LINE", "RECTANGLE"}
  ELSE \A i \in 1..Len(n.children) :
         n.children[i].type # "TEXT" /\ isVectorial(n.children[i])

isIconGroup(node) ==
  /\ node.type \in ContainerTypes
  /\ node.children # <<>>
  /\ isVectorial(node)

isImageLikeNode_cta(node) ==
  \/ node.type = "RECTANGLE" /\ node.fills = "image"
  \/ node.type \in {"VECTOR", "LINE"}
  \/ isIconGroup(node)

\* getEffectiveBackgroundColor(node, ...).hex is not null: the first visible
\* paint is a solid colour
HasBgColor(node) == node.fills = "solid"

\* getBorderStyles(node) is not null
HasBorder(node) == node.stroke

(***************************************************************************)
(* Revision _cta (src/code.ts 1-685): the renderer.                        *)
(* parentBgColor is not modelled; font loading (figma.loadFontAsync) is    *)
(* an await that touches no state of the parser.                           *)
(***************************************************************************)
FillerRow(ref, gap) ==
  El("tr", "filler", ref, NoDim, PxDim(gap), 0, <<>>,
     <<El("td", "filler", ref, NoDim, PxDim(gap), 0, Nbsp, <<>>)>>)

TextEl(ref, cls, chars) == El("text", cls, ref, NoDim, NoDim, 0, chars, <<>>)

Td(cls, ref, w, kids) == El("td", cls, ref, w, NoDim, 0, <<>>, kids)

Tr(cls, ref, kids) == El("tr", cls, ref, NoDim, NoDim, 0, <<>>, kids)

Table(cls, ref, w, kids) == El("table", cls, ref, w, NoDim, 0, <<>>, kids)

GutterCell(ref, padding) ==
  IF padding > 0
  THEN <<El("td", "gutter", ref, PxDim(padding), NoDim, 0, Nbsp, <<>>)>>
  ELSE <<>>

renderImagePlaceholder_cta(node, parentWidth) ==
  IF node.width < Px(1) \/ node.height < Px(1) THEN <<>>
  ELSE LET w == Round(node.width)
           h == Round(node.height)
           finalWidth == Max(Px(1), Min(w, parentWidth))
       IN <<El("img", "placeholder", node.id, PxDim(finalWidth), PxDim(h), 0, <<>>, <<>>)>>

renderShape_cta(node) ==
  IF node.width < Px(1) \/ node.height < Px(1) THEN <<>>
  ELSE LET finalHeight == Round(node.height)
       IN <<El("table", "shape", node.id, PctDim(100), PxDim(finalHeight), 0, <<>>,
               <<Tr("shape", node.id, <<El("td", "shape", node.id, NoDim, NoDim, 0, Nbsp, <<>>)>>)>>)>>

RECURSIVE textRuns_cta(_, _)
textRuns_cta(node, segments) ==
  IF segments = <<>> THEN <<>>
  ELSE LET segment == Head(segments)
           sanitizedChars == Escape(segment.characters)
           finalContent == BulletEntity(sanitizedChars)
           run == IF segment.fontName = "mixed" THEN <<>>
                  ELSE <<El("span", "run", node.id, NoDim, NoDim, 0, finalContent, <<>>)>>
       IN run \o textRuns_cta(node, Tail(segments))

renderTextContent_cta(node) ==
  IF Trim(Characters(node)) = <<>> THEN <<>>
  ELSE textRuns_cta(node, node.segments)

renderText_cta(node) ==
  IF Trim(Characters(node)) = <<>> THEN <<>>
  ELSE IF Len(node.segments) = 1
  THEN IF node.segments[1].fontName = "mixed" THEN <<>>
       ELSE <<Table("text", node.id, PctDim(100),
                <<Tr("text", node.id,
                   <<Td("text", node.id, NoDim,
                        <<TextEl(node.id, "chars", Escape(Characters(node)))>>)>>)>>)>>
  ELSE LET contentHtml == renderTextContent_cta(node)
       IN IF contentHtml = <<>> THEN <<>>
          ELSE <<Table("text", node.id, PctDim(100),
                   <<Tr("text", node.id, <<Td("text", node.id, NoDim, contentHtml)>>)>>)>>

renderBulletPoint_cta(node) ==
  LET bulletNode == node.children[1]
      textNode == node.children[2]
      itemSpacing == node.itemSpacing
      bulletHtml == renderTextContent_cta(bulletNode)
      textHtml == renderTextContent_cta(textNode)
  IN <<Table("bullet", node.id, PctDim(100),
        <<Tr("bullet", node.id,
            <<Td("bullet", node.id, PctDim(1), bulletHtml),
              El("td", "spacer", node.id, PxDim(itemSpacing), NoDim, 0, Nbsp, <<>>),
              Td("bullet", node.id, NoDim, textHtml)>>)>>)>>

FirstOfType(children, types) ==
  LET i == CHOOSE k \in 1..Len(children) :
             /\ children[k].type \in types
             /\ \A j \in 1..(k - 1) : children[j].type \notin types
  IN children[i]

renderCta_cta(node) ==
  LET shapeNode == FirstOfType(node.children, {"RECTANGLE", "ELLIPSE"})
      textNode == FirstOfType(node.children, {"TEXT"})
  IN IF FontName(textNode) = "mixed" THEN <<>>
     ELSE <<Table("cta", node.id, NoDim,
              <<Tr("cta", node.id,
                 <<Td("cta", shapeNode.id, NoDim,
                     <<El("a", "cta", textNode.id, NoDim, NoDim, 0,
                          Characters(textNode), <<>>)>>)>>)>>)>>

\* nodeWidth / parentWidth > 0.95 in IEEE arithmetic (x/0 is Infinity, 0/0 NaN)
RatioAbove(nodeWidth, parentWidth, percent) ==
  \/ parentWidth > 0 /\ 100 * nodeWidth > percent * parentWidth
  \/ parentWidth < 0 /\ 100 * nodeWidth < percent * parentWidth
  \/ parentWidth = 0 /\ nodeWidth > 0

RECURSIVE SumWidth(_)
SumWidth(children) ==
  IF children = <<>> THEN 0 ELSE Head(children).width + SumWidth(Tail(children))

\* ((colWidth / totalContentWidth) * 100).toFixed(2), in hundredths of a percent
\* (-1 stands for the non-finite results of a zero total)
PercentOf(colWidth, totalContentWidth) ==
  IF totalContentWidth <= 0 THEN PctDim(0 - 1)
  ELSE PctDim((2 * 10000 * colWidth + totalContentWidth) \div (2 * totalContentWidth))

NeedsFillerFromTolerance(gap) == gap >= Px(GapTolerance)

\* if (verticalGap > 2) / if (gap > 2)
NeedsFiller(gap) == gap > Px(GapTolerance)

RECURSIVE renderNode_cta(_, _, _)
RECURSIVE renderContainer_cta(_, _, _, _)
RECURSIVE stackRows_cta(_, _, _, _, _)
RECURSIVE horizontalCells_cta(_, _, _, _, _, _)

\* the loop of renderStackedChildren
stackRows_cta(parentNode, children, lastBottomY, availableWidth, confirmed) ==
  IF children = <<>> THEN <<>>
  ELSE LET child == Head(children)
           verticalGap == Round(child.y - lastBottomY)
           filler == IF NeedsFiller(verticalGap)
                     THEN <<FillerRow(child.id, verticalGap)>> ELSE <<>>
           childHtml == renderNode_cta(child, availableWidth, confirmed)
           row == IF childHtml # <<>>
                  THEN <<Tr("row", child.id,
                            GutterCell(parentNode.id, Round(parentNode.paddingLeft))
                            \o <<Td("content", child.id, NoDim, childHtml)>>
                            \o GutterCell(parentNode.id, Round(parentNode.paddingRight)))>>
                  ELSE <<>>
       IN filler \o row
          \o stackRows_cta(parentNode, Tail(children), child.y + child.height,
                           availableWidth, confirmed)

\* the children renderStackedChildren iterates over, in its order
StackOrder(parentNode) ==
  IF parentNode.layoutMode # "ABSENT" /\ parentNode.layoutMode # "VERTICAL"
  THEN SortByY(VisibleChildren(parentNode))
  ELSE VisibleChildren(parentNode)

renderStackedChildren_cta(parentNode, parentWidth, confirmed) ==
  LET children == StackOrder(parentNode)
      lastBottomY == parentNode.paddingTop
      availableWidth == parentWidth - Round(parentNode.paddingLeft)
                                    - Round(parentNode.paddingRight)
  IN <<Table("stack", parentNode.id, PctDim(100),
             stackRows_cta(parentNode, children, lastBottomY, availableWidth, confirmed))>>

\* the loop of renderHorizontalChildren
horizontalCells_cta(node, children, index, itemSpacing, totalContentWidth, confirmed) ==
  IF index > Len(children) THEN <<>>
  ELSE LET child == children[index]
           colWidth == Round(child.width)
           widthAttr ==
             IF isImageLikeNode_cta(child) THEN PxDim(colWidth)
             ELSE IF child.type \in ContainerTypes /\ Len(children) > 1
                  THEN PercentOf(colWidth, totalContentWidth)
                  ELSE NoDim
           childHtml == renderNode_cta(child, colWidth, confirmed)
           spacer == IF index < Len(children) /\ itemSpacing > 0
                     THEN <<El("td", "spacer", node.id, PxDim(itemSpacing), NoDim, 0, Nbsp, <<>>)>>
                     ELSE <<>>
       IN <<Td("cell", child.id, widthAttr, childHtml)>> \o spacer
          \o horizontalCells_cta(node, children, index + 1, itemSpacing,
                                 totalContentWidth, confirmed)

renderHorizontalChildren_cta(node, parentWidth, confirmed) ==
  LET children == VisibleChildren(node)
      itemSpacing == Round(node.itemSpacing)
      totalContentWidth == SumWidth(children) + itemSpacing * (Len(children) - 1)
  IN <<Table("hrow", node.id, PctDim(100),
        <<Tr("hrow", node.id,
             horizontalCells_cta(node, children, 1, itemSpacing, totalContentWidth, confirmed))>>)>>

PaddingRow(ref, padding) ==
  IF padding > 0
  THEN <<El("tr", "padding", ref, NoDim, PxDim(padding), 0, <<>>,
            <<El("td", "padding", ref, NoDim, PxDim(padding), 0, Nbsp, <<>>)>>)>>
  ELSE <<>>

renderContainer_cta(node, parentWidth, isRoot, confirmed) ==
  IF VisibleChildren(node) = <<>> /\ ~HasBgColor(node) /\ ~HasBorder(node) THEN <<>>
  ELSE LET nodeWidth == Round(node.width)
           finalWidth == IF isRoot THEN Px(PageWidth) ELSE Min(nodeWidth, parentWidth)
           isFluid == /\ ~isRoot
                      /\ \/ RatioAbove(nodeWidth, parentWidth, FluidRatio)
                         \/ nodeWidth > Px(FluidWidth)
           tableWidthAttr == IF isRoot THEN PxDim(finalWidth)
                             ELSE IF isFluid THEN PctDim(100) ELSE PxDim(finalWidth)
           innerHtml == IF node.layoutMode = "HORIZONTAL"
                        THEN renderHorizontalChildren_cta(node, finalWidth, confirmed)
                        ELSE renderStackedChildren_cta(node, finalWidth, confirmed)
       IN <<Table(IF isRoot THEN "wrapper" ELSE "container", node.id, tableWidthAttr,
                  PaddingRow(node.id, Round(node.paddingTop))
                  \o <<Tr("inner", node.id, <<Td("inner", node.id, NoDim, innerHtml)>>)>>
                  \o PaddingRow(node.id, Round(node.paddingBottom)))>>

TakesCtaPathUnconfirmed(node, confirmed) == isPotentialCta(node)

\* the branch renderNode takes for a container that is neither an icon group
\* nor a bullet item: this.confirmedCtaIds.has(node.id) && isPotentialCta(node)
TakesCtaPath(node, confirmed) == node.id \in confirmed /\ isPotentialCta(node)

\* the name of the render method renderNode dispatches to ("" when none)
renderNodePath_cta(node, confirmed) ==
  IF ~node.visible THEN ""
  ELSE CASE node.type \in ContainerTypes ->
              IF isIconGroup(node) THEN "renderImagePlaceholder"
              ELSE IF isBulletPoint(node) THEN "renderBulletPoint"
              ELSE IF TakesCtaPath(node, confirmed) THEN "renderCta"
              ELSE "renderContainer"
         [] node.type \in {"RECTANGLE", "ELLIPSE"} ->
              IF node.fills = "image" THEN "renderImagePlaceholder" ELSE "renderShape"
         [] node.type = "TEXT" -> "renderText"
         [] node.type \in {"VECTOR", "LINE"} -> "renderImagePlaceholder"
         [] OTHER -> ""

\* the same for a container in the earlier revision of renderNode (src/code.ts
\* 787-800), which has no icon groups and tries the button before the bullet item
renderNodePath_earlier(node, confirmed) ==
  IF ~node.visible THEN ""
  ELSE IF TakesCtaPath(node, confirmed) THEN "renderCta"
  ELSE IF isBulletPoint(node) THEN "renderBulletPoint"
  ELSE "renderContainer"

renderNode_cta(node, parentWidth, confirmed) ==
  LET path == renderNodePath_cta(node, confirmed)
  IN CASE path = "renderImagePlaceholder" -> renderImagePlaceholder_cta(node, parentWidth)
       [] path = "renderBulletPoint" -> renderBulletPoint_cta(node)
       [] path = "renderCta" -> renderCta_cta(node)
       [] path = "renderContainer" -> renderContainer_cta(node, parentWidth, FALSE, confirmed)
       [] path = "renderShape" -> renderShape_cta(node)
       [] path = "renderText" -> renderText_cta(node)
       [] OTHER -> <<>>

\* the loop of parse over a multi-node selection
RECURSIVE multiRows_cta(_, _, _, _)
multiRows_cta(sortedNodes, i, lastBottomY, confirmed) ==
  IF i > Len(sortedNodes) THEN <<>>
  ELSE LET node == sortedNodes[i]
           gap == Round(node.y - lastBottomY)
           filler == IF i > 1 /\ NeedsFiller(gap)
                     THEN <<FillerRow(node.id, gap)>> ELSE <<>>
           nodeHtml == renderNode_cta(node, node.width, confirmed)
           row == IF nodeHtml # <<>>
                  THEN <<Tr("row", node.id, <<Td("content", node.id, NoDim, nodeHtml)>>)>>
                  ELSE <<>>
       IN filler \o row
          \o multiRows_cta(sortedNodes, i + 1,
                           IF node.visible THEN node.y + node.height ELSE lastBottomY,
                           confirmed)

\* .replace(/<tr[^>]*>\s*<td[^>]*>\s*<\/td>\s*<\/tr>/g, ''): rows whose only
\* content is one empty cell
IsEmptyCellRow(e) ==
  /\ e.tag = "tr"
  /\ e.txt = <<>>
  /\ Len(e.kids) = 1
  /\ e.kids[1].tag = "td" /\ e.kids[1].kids = <<>> /\ e.kids[1].txt = <<>>

\* .replace(/<tr[^>]*>\s*<\/tr>/g, ''): entirely empty rows
IsEmptyRow(e) == e.tag = "tr" /\ e.kids = <<>> /\ e.txt = <<>>

RECURSIVE dropEmptyCellRows(_)
dropEmptyCellRows(html) ==
  IF html = <<>> THEN <<>>
  ELSE LET e == Head(html)
       IN (IF IsEmptyCellRow(e) THEN <<>>
           ELSE <<[e EXCEPT !.kids = dropEmptyCellRows(e.kids)]>>)
          \o dropEmptyCellRows(Tail(html))

RECURSIVE dropEmptyRows(_)
dropEmptyRows(html) ==
  IF html = <<>> THEN <<>>
  ELSE LET e == Head(html)
       IN (IF IsEmptyRow(e) THEN <<>>
           ELSE <<[e EXCEPT !.kids = dropEmptyRows(e.kids)]>>)
          \o dropEmptyRows(Tail(html))

\* the three replace calls parse ends with (no <tbody> is ever emitted)
cleanup(html) == dropEmptyRows(dropEmptyCellRows(html))

\* the root wrapper has no owner node: it is emitted for the whole selection
SelectionRef == "#selection"

parse_cta(nodes, confirmed) ==
  IF nodes = <<>> THEN <<>>
  ELSE LET finalHtml ==
             IF Len(nodes) = 1
             THEN LET node == nodes[1]
                  IN IF node.type \in {"FRAME", "COMPONENT", "INSTANCE"}
                     THEN renderContainer_cta(node, node.width, TRUE, confirmed)
                     ELSE renderNode_cta(node, node.width, confirmed)
             ELSE <<Table("multi", SelectionRef, PxDim(Px(PageWidth)),
                          multiRows_cta(SortByY(nodes), 1, 0, confirmed))>>
       IN cleanup(finalHtml)

(***************************************************************************)
(* Revision _img (src/unnamed/part_000 307-734): the renderer.             *)
(* The host's answers to node.exportAsync are given by `outcome`, the      *)
(* sequence of completed export calls of the pass: [id, ok, num], where    *)
(* num is the value of imageCounter the image was stored under.            *)
(***************************************************************************)
ImageExportModes == {"placeholder", "base64", "download"}

ExportResult(outcome, id) ==
  outcome[CHOOSE i \in 1..Len(outcome) : outcome[i].id = id]

RECURSIVE isImageLikeNode_img(_)
isImageLikeNode_img(node) ==
  \/ node.type \in {"RECTANGLE", "ELLIPSE"} /\ node.fills = "image"
  \/ node.type \in {"VECTOR", "LINE"}
  \/ /\ node.type \in ContainerTypes
     /\ node.children # <<>>
     /\ \A i \in 1..Len(node.children) :
          node.children[i].type # "TEXT" /\ isImageLikeNode_img(node.children[i])

\* renderImage reaches node.exportAsync
CallsExport(node, mode) ==
  node.width >= Px(1) /\ node.height >= Px(1) /\ mode # "placeholder"

renderImage_img(node, parentWidth, mode, outcome) ==
  IF node.width < Px(1) \/ node.height < Px(1) THEN <<>>
  ELSE LET finalWidth == Min(Round(node.width), parentWidth)
           h == Round(node.height)
       IN IF mode = "placeholder"
          THEN <<El("img", "placeholder", node.id, PxDim(finalWidth), PxDim(h), 0, <<>>, <<>>)>>
          ELSE LET r == ExportResult(outcome, node.id)
               IN IF ~r.ok
                  THEN <<El("p", "error", node.id, NoDim, NoDim, 0, <<>>, <<>>)>>
                  ELSE IF mode = "base64"
                  THEN <<El("img", "base64", node.id, PxDim(finalWidth), NoDim, 0, <<>>, <<>>)>>
                  ELSE <<El("img", "download", node.id, PxDim(finalWidth), NoDim, r.num, <<>>, <<>>)>>

renderShape_img(node) ==
  IF node.width < Px(1) \/ node.height < Px(1) THEN <<>>
  ELSE LET finalHeight == Round(node.height)
       IN <<El("table", "shape", node.id, PctDim(100), PxDim(finalHeight), 0, <<>>,
               <<Tr("shape", node.id, <<El("td", "shape", node.id, NoDim, NoDim, 0, Nbsp, <<>>)>>)>>)>>

RECURSIVE textRuns_img(_, _)
textRuns_img(node, segments) ==
  IF segments = <<>> THEN <<>>
  ELSE LET segment == Head(segments)
           sanitizedChars == Escape(segment.characters)
           finalContent == BulletEntity(sanitizedChars)
           run == IF segment.fontName = "mixed" THEN <<>>
                  ELSE <<El("span", "run", node.id, NoDim, NoDim, 0, finalContent, <<>>)>>
       IN run \o textRuns_img(node, Tail(segments))

renderTextContent_img(node) ==
  IF Trim(Characters(node)) = <<>> THEN <<>>
  ELSE textRuns_img(node, node.segments)

renderText_img(node) ==
  IF Trim(Characters(node)) = <<>> THEN <<>>
  ELSE <<Table("text", node.id, PctDim(100),
           <<Tr("text", node.id,
                <<Td("text", node.id, NoDim, renderTextContent_img(node))>>)>>)>>

renderBulletPoint_img(node) ==
  LET bulletNode == node.children[1]
      textNode == node.children[2]
      itemSpacing == node.itemSpacing
      bulletHtml == renderTextContent_img(bulletNode)
      textHtml == renderTextContent_img(textNode)
  IN <<Table("bullet", node.id, PctDim(100),
        <<Tr("bullet", node.id,
            <<Td("bullet", node.id, PctDim(1), bulletHtml),
              El("td", "spacer", node.id, PxDim(itemSpacing), NoDim, 0, Nbsp, <<>>),
              Td("bullet", node.id, NoDim, textHtml)>>)>>)>>

RECURSIVE renderNode_img(_, _, _, _)
RECURSIVE renderContainer_img(_, _, _, _, _)
RECURSIVE stackRows_img(_, _, _, _, _, _)
RECURSIVE horizontalCells_img(_, _, _, _, _, _, _)

\* the loop of renderStackedChildren
stackRows_img(parentNode, children, lastBottomY, availableWidth, mode, outcome) ==
  IF children = <<>> THEN <<>>
  ELSE LET child == Head(children)
           verticalGap == Round(child.y - lastBottomY)
           filler == IF NeedsFiller(verticalGap)
                     THEN <<FillerRow(child.id, verticalGap)>> ELSE <<>>
           childHtml == renderNode_img(child, availableWidth, mode, outcome)
           row == IF childHtml # <<>>
                  THEN <<Tr("row", child.id,
                            GutterCell(parentNode.id, parentNode.paddingLeft)
                            \o <<Td("content", child.id, NoDim, childHtml)>>
                            \o GutterCell(parentNode.id, parentNode.paddingRight))>>
                  ELSE <<>>
       IN filler \o row
          \o stackRows_img(parentNode, Tail(children), child.y + child.height,
                           availableWidth, mode, outcome)

renderStackedChildren_img(parentNode, parentWidth, mode, outcome) ==
  LET children == StackOrder(parentNode)
      lastBottomY == parentNode.paddingTop
      availableWidth == parentWidth - parentNode.paddingLeft - parentNode.paddingRight
  IN <<Table("stack", parentNode.id, PctDim(100),
             stackRows_img(parentNode, children, lastBottomY, availableWidth, mode, outcome))>>

\* the loop of renderHorizontalChildren
horizontalCells_img(node, children, index, itemSpacing, isSpaceBetween, mode, outcome) ==
  IF index > Len(children) THEN <<>>
  ELSE LET child == children[index]
           childHtml == renderNode_img(child, child.width, mode, outcome)
           spacer ==
             IF index < Len(children)
             THEN IF isSpaceBetween
                  THEN <<El("td", "spacer", node.id, PctDim(100), NoDim, 0, Nbsp, <<>>)>>
                  ELSE IF itemSpacing > 0
                  THEN <<El("td", "spacer", node.id, PxDim(itemSpacing), NoDim, 0, Nbsp, <<>>)>>
                  ELSE <<>>
             ELSE <<>>
       IN <<Td("cell", child.id, NoDim, childHtml)>> \o spacer
          \o horizontalCells_img(node, children, index + 1, itemSpacing,
                                 isSpaceBetween, mode, outcome)

renderHorizontalChildren_img(node, parentWidth, mode, outcome) ==
  LET children == VisibleChildren(node)
      itemSpacing == Round(node.itemSpacing)
      isSpaceBetween == node.primaryAxisAlignItems = "SPACE_BETWEEN" /\ Len(children) > 1
  IN <<Table("hrow", node.id, PctDim(100),
        <<Tr("hrow", node.id,
             horizontalCells_img(node, children, 1, itemSpacing, isSpaceBetween,
                                 mode, outcome))>>)>>

renderContainer_img(node, parentWidth, isRoot, mode, outcome) ==
  IF VisibleChildren(node) = <<>> /\ ~HasBgColor(node) /\ ~HasBorder(node) THEN <<>>
  ELSE LET innerHtml == IF node.layoutMode = "HORIZONTAL"
                        THEN renderHorizontalChildren_img(node, parentWidth, mode, outcome)
                        ELSE renderStackedChildren_img(node, parentWidth, mode, outcome)
           hasStyles == HasBgColor(node) \/ HasBorder(node)
           paddingTop == Round(node.paddingTop)
           paddingBottom == Round(node.paddingBottom)
           width == IF isRoot THEN parentWidth ELSE Min(node.width, parentWidth)
       IN IF ~hasStyles /\ paddingTop = 0 /\ paddingBottom = 0 /\ ~isRoot
          THEN innerHtml
          ELSE <<Table("container", node.id, PxDim(width),
                       PaddingRow(node.id, paddingTop)
                       \o (IF innerHtml # <<>>
                           THEN <<Tr("inner", node.id,
                                     <<Td("inner", node.id, NoDim, innerHtml)>>)>>
                           ELSE <<>>)
                       \o PaddingRow(node.id, paddingBottom))>>

\* the name of the render method renderNode dispatches to ("" when none)
renderNodePath_img(node) ==
  IF ~node.visible THEN ""
  ELSE IF isImageLikeNode_img(node) THEN "renderImage"
  ELSE CASE node.type \in ContainerTypes ->
              IF isBulletPoint(node) THEN "renderBulletPoint" ELSE "renderContainer"
         [] node.type \in {"RECTANGLE", "ELLIPSE"} -> "renderShape"
         [] node.type = "TEXT" -> "renderText"
         [] OTHER -> ""

renderNode_img(node, parentWidth, mode, outcome) ==
  LET path == renderNodePath_img(node)
  IN CASE path = "renderImage" -> renderImage_img(node, parentWidth, mode, outcome)
       [] path = "renderBulletPoint" -> renderBulletPoint_img(node)
       [] path = "renderContainer" ->
            renderContainer_img(node, parentWidth, FALSE, mode, outcome)
       [] path = "renderShape" -> renderShape_img(node)
       [] path = "renderText" -> renderText_img(node)
       [] OTHER -> <<>>

\* the loop of parse over a multi-node selection
RECURSIVE multiRows_img(_, _, _, _, _)
multiRows_img(sortedNodes, i, lastBottomY, mode, outcome) ==
  IF i > Len(sortedNodes) THEN <<>>
  ELSE LET node == sortedNodes[i]
           gap == Round(node.y - lastBottomY)
           filler == IF i > 1 /\ NeedsFiller(gap)
                     THEN <<FillerRow(node.id, gap)>> ELSE <<>>
           nodeHtml == renderNode_img(node, node.width, mode, outcome)
           row == IF nodeHtml # <<>>
                  THEN <<Tr("row", node.id, <<Td("content", node.id, NoDim, nodeHtml)>>)>>
                  ELSE <<>>
       IN filler \o row
          \o multiRows_img(sortedNodes, i + 1,
                           IF node.visible THEN node.y + node.height ELSE lastBottomY,
                           mode, outcome)

\* what parse returns once every export call of the pass has completed
parseResult_img(nodes, mode, outcome) ==
  IF nodes = <<>> THEN <<>>
  ELSE IF Len(nodes) = 1
  THEN LET node == nodes[1]
           isRootSelection == node.parentIsPage
       IN IF node.type \in {"FRAME", "COMPONENT", "INSTANCE"}
          THEN renderContainer_img(node, node.width, isRootSelection, mode, outcome)
          ELSE renderNode_img(node, node.width, mode, outcome)
  ELSE LET sortedNodes == SortByY(nodes)
       IN multiRows_img(sortedNodes, 1, sortedNodes[1].y, mode, outcome)

(***************************************************************************)
(* The export calls of one pass of revision _img, in the order the         *)
(* recursive walk reaches them (each is awaited before the walk goes on).  *)
(***************************************************************************)
RECURSIVE exportCallsNode(_, _)
RECURSIVE exportCallsContainer(_, _)
RECURSIVE exportCallsList(_, _)

exportCallsList(children, mode) ==
  IF children = <<>> THEN <<>>
  ELSE exportCallsNode(Head(children), mode) \o exportCallsList(Tail(children), mode)

exportCallsContainer(node, mode) ==
  IF VisibleChildren(node) = <<>> /\ ~HasBgColor(node) /\ ~HasBorder(node) THEN <<>>
  ELSE IF node.layoutMode = "HORIZONTAL"
  THEN exportCallsList(VisibleChildren(node), mode)
  ELSE exportCallsList(StackOrder(node), mode)

exportCallsNode(node, mode) ==
  LET path == renderNodePath_img(node)
  IN CASE path = "renderImage" -> IF CallsExport(node, mode) THEN <<node>> ELSE <<>>
       [] path = "renderContainer" -> exportCallsContainer(node, mode)
       [] OTHER -> <<>>

exportCalls(nodes, mode) ==
  IF nodes = <<>> THEN <<>>
  ELSE IF Len(nodes) = 1
  THEN IF nodes[1].type \in {"FRAME", "COMPONENT", "INSTANCE"}
       THEN exportCallsContainer(nodes[1], mode)
       ELSE exportCallsNode(nodes[1], mode)
  ELSE exportCallsList(SortByY(nodes), mode)

(***************************************************************************)
(* Bounds and the documents the model is run on.                           *)
(***************************************************************************)
\* children per generated container
MaxKids == 2

\* nodes per generated multi-node selection
MaxSel == 2

\* parse calls made on one parser object
MaxParses == 2

Run(chars) == <<Segment(chars, "Inter")>>

K1 == Shape("k1", "RECTANGLE", TRUE, 0, Px(20), "solid")

K2 == Text("k2", TRUE, Px(22), Px(10), Run(<<"O", "k">>))

K3 == Shape("k3", "VECTOR", TRUE, Px(23), Px(10), "none")

K4 == Shape("k4", "RECTANGLE", TRUE, Px(22) + 1, Px(10), "image")

K5 == Text("k5", FALSE, Px(40), Px(10), Run(<<"n", "o">>))

K6 == Shape("k6", "STAR", TRUE, Px(60), Px(10), "solid")

K7 == Text("k7", TRUE, 0, Px(10), Run(<<"*">>))

\* the sequences of at most n distinct members of pool
DistinctSeqs(pool, n) ==
  {s \in UNION {[1..m -> pool] : m \in 0..n} :
     \A i, j \in 1..Len(s) : i # j => s[i] # s[j]}

\* the y an auto-layout column gives its children (hidden children take no room)
RECURSIVE AutoLayoutY(_, _, _)
AutoLayoutY(kids, y, spacing) ==
  IF kids = <<>> THEN <<>>
  ELSE LET k == Head(kids)
       IN <<[k EXCEPT !.y = y]>>
          \o AutoLayoutY(Tail(kids), IF k.visible THEN y + k.height + spacing ELSE y, spacing)

\* an auto-layout row puts every child at the top padding
RowLayoutY(kids, y) == [i \in 1..Len(kids) |-> [kids[i] EXCEPT !.y = y]]

OnPage(node) == [node EXCEPT !.parentIsPage = TRUE]

\* free-form frames on the page
PlainFrames ==
  {OnPage(Box("f", "FRAME", TRUE, 0, Px(100), "NONE", "none", kids)) :
     kids \in DistinctSeqs({K1, K2, K3, K4, K5, K6}, MaxKids)}

Groups ==
  {OnPage(Box("f", "GROUP", TRUE, 0, Px(100), "ABSENT", "none", kids)) :
     kids \in DistinctSeqs({K1, K2, K3}, MaxKids)}

Instances ==
  {OnPage(Box("f", "INSTANCE", TRUE, 0, Px(100), "NONE", "none", kids)) :
     kids \in DistinctSeqs({K1, K2}, MaxKids)}

HiddenFrames ==
  {OnPage(Box("f", "FRAME", FALSE, 0, Px(100), "NONE", "none", kids)) :
     kids \in DistinctSeqs({K2, K4}, MaxKids)}

\* styled frames selected from inside another frame
StyledFrames ==
  {[Box("f", "FRAME", TRUE, 0, Px(100), "NONE", "solid", kids) EXCEPT !.stroke = TRUE] :
     kids \in DistinctSeqs({K2, K4}, MaxKids)}

Columns ==
  {OnPage([Box("f", "FRAME", TRUE, 0, Px(100), "VERTICAL", "none",
               AutoLayoutY(kids, Px(4), Px(3)))
             EXCEPT !.paddingTop = Px(4), !.paddingBottom = Px(4),
                    !.paddingLeft = Px(10), !.paddingRight = Px(10),
                    !.itemSpacing = Px(3)]) :
     kids \in DistinctSeqs({K1, K2, K5}, MaxKids)}

Rows ==
  {OnPage([Box("f", "FRAME", TRUE, 0, Px(100), "HORIZONTAL", "none", RowLayoutY(kids, 0))
             EXCEPT !.itemSpacing = Px(8)]) :
     kids \in DistinctSeqs({K2, K4, K7}, MaxKids)}

SpreadRows ==
  {OnPage([Box("f", "FRAME", TRUE, 0, Px(100), "HORIZONTAL", "solid", RowLayoutY(kids, 0))
             EXCEPT !.primaryAxisAlignItems = "SPACE_BETWEEN"]) :
     kids \in DistinctSeqs({K1, K2}, MaxKids)}

SingleFrames ==
  PlainFrames \cup Groups \cup Instances \cup HiddenFrames \cup StyledFrames
              \cup Columns \cup Rows \cup SpreadRows

T1 == OnPage(Shape("t1", "RECTANGLE", TRUE, 0, Px(100), "solid"))

T2 == OnPage(Shape("t2", "RECTANGLE", TRUE, Px(150), Px(50), "solid"))

T3 == OnPage(Shape("t3", "VECTOR", TRUE, Px(102), Px(10), "none"))

T4 == OnPage(Shape("t4", "RECTANGLE", TRUE, Px(102) + 1, Px(10), "image"))

T5 == OnPage(Box("t5", "FRAME", FALSE, Px(120), Px(20), "NONE", "none",
                 <<[K2 EXCEPT !.id = "t5a"]>>))

T6 == OnPage(Box("t6", "FRAME", TRUE, Px(300), Px(40), "NONE", "none",
                 <<[K2 EXCEPT !.id = "t6a"], [K1 EXCEPT !.id = "t6b"]>>))

T7 == OnPage(Shape("t7", "STAR", TRUE, Px(110), Px(10), "solid"))

G1 == OnPage(Box("f", "GROUP", TRUE, 0, Px(100), "ABSENT", "none", <<K1, K2>>))

G2 == OnPage(Box("f", "GROUP", TRUE, 0, Px(100), "ABSENT", "none",
                 <<K1, [K5 EXCEPT !.y = 0]>>))

\* an auto-layout row whose only child is of an unsupported kind
H1 == OnPage([Box("f", "FRAME", TRUE, 0, Px(100), "HORIZONTAL", "none",
                  <<[K6 EXCEPT !.y = 0]>>)
                EXCEPT !.itemSpacing = Px(8)])

TopPool == {T1, T2, T3, T4, T5, T7}

MultiSelections == {s \in DistinctSeqs(TopPool, MaxSel) : Len(s) >= 2}

SingleLeaves == {<<t>> : t \in TopPool}

I1 == Shape("i1", "VECTOR", TRUE, 0, Px(10), "none")

I2 == Shape("i2", "RECTANGLE", TRUE, Px(10), Px(10), "image")

I3 == Shape("i3", "LINE", TRUE, Px(40), Px(10), "none")

Root(layoutMode, kids) ==
  OnPage(Box("root", "FRAME", TRUE, 0, Px(400), layoutMode, "none", kids))

Inner(id, type, visible, y, layoutMode, kids) ==
  Box(id, type, visible, y, Px(30), layoutMode, "none", kids)

NestedRoots ==
  { Root("NONE", <<Inner("f", "FRAME", TRUE, 0, "NONE", <<K2, K1>>), I3>>),
    Root("NONE", <<Inner("f", "FRAME", FALSE, 0, "NONE", <<K2, K3>>), I3>>),
    Root("NONE", <<Inner("f", "FRAME", TRUE, 0, "NONE", <<I1, K2, I2>>), I3>>),
    Root("NONE", <<Inner("f", "GROUP", TRUE, 0, "ABSENT", <<I2, K1, I1>>), I3>>),
    Root("VERTICAL", <<Inner("f", "FRAME", TRUE, 0, "HORIZONTAL", <<K7, [K5 EXCEPT !.y = 0]>>),
                       [K2 EXCEPT !.y = Px(30)]>>),
    Root("HORIZONTAL", <<Inner("f", "FRAME", TRUE, 0, "NONE", <<K2>>),
                         [K6 EXCEPT !.y = 0], [I2 EXCEPT !.y = 0]>>) }

\* children wider than the frame that holds them
Wide == [K4 EXCEPT !.id = "w", !.y = 0, !.width = Px(300)]

WideBox ==
  [Box("wb", "FRAME", TRUE, Px(10), Px(20), "NONE", "solid", <<>>) EXCEPT !.width = Px(300)]

\* a padded column and a padded row holding them
W1 ==
  OnPage([Box("f", "FRAME", TRUE, 0, Px(100), "VERTICAL", "none", <<Wide, WideBox>>)
            EXCEPT !.paddingLeft = Px(10), !.paddingRight = Px(10)])

W2 ==
  OnPage([Box("f", "FRAME", TRUE, 0, Px(100), "HORIZONTAL", "none", <<Wide, WideBox>>)
            EXCEPT !.paddingLeft = Px(10), !.paddingRight = Px(10)])

\* a text whose two runs differ in font, alone and next to a one-font text
M1 == OnPage(Text("m1", TRUE, 0, Px(10),
                  <<Segment(<<"A">>, "Inter"), Segment(<<"B">>, "Roboto")>>))

M2 == OnPage(Box("f", "FRAME", TRUE, 0, Px(100), "VERTICAL", "none",
                 <<[K2 EXCEPT !.y = 0], [M1 EXCEPT !.y = Px(10), !.parentIsPage = FALSE]>>))

\* texts with characters that markup gives a meaning to: behind a button
\* shape, as a bullet item and in two runs
Markup == <<"a", "&", "<", "b", ">", "\n">>

E1 == OnPage(Box("e1", "FRAME", TRUE, 0, Px(40), "NONE", "none",
                 <<Box("f", "FRAME", TRUE, 0, Px(40), "NONE", "none",
                       <<Text("e1a", TRUE, 0, Px(10), Run(Markup)),
                         [K1 EXCEPT !.y = Px(10)]>>)>>))

E2 == OnPage(Box("e2", "FRAME", TRUE, 0, Px(40), "NONE", "none",
                 <<Box("f", "FRAME", TRUE, 0, Px(10), "HORIZONTAL", "none",
                       <<Text("e2a", TRUE, 0, Px(10), Run(<<"-">>)),
                         Text("e2b", TRUE, 0, Px(10), Run(Markup))>>)>>))

E3 == OnPage(Text("e3", TRUE, 0, Px(10),
                  <<Segment(Markup, "Inter"), Segment(<<"&">>, "Roboto")>>))

\* an image in a frame whose padding leaves no width, and in a frame whose
\* width is not a whole number of pixels
Narrow == [K4 EXCEPT !.id = "p", !.y = 0, !.width = Px(8)]

P1 ==
  [Box("f", "FRAME", TRUE, 0, Px(40), "VERTICAL", "none", <<Narrow>>)
     EXCEPT !.width = Px(10), !.paddingLeft = Px(6), !.paddingRight = Px(6)]

P2 ==
  [Box("f", "FRAME", TRUE, 0, Px(40), "VERTICAL", "none", <<Narrow>>)
     EXCEPT !.width = Px(4) + 1]

\* a plain frame selected from inside another frame
N1 == Inner("f", "FRAME", TRUE, 0, "NONE", <<K2>>)

\* the node lists a run is made on
Documents ==
  {<<>>} \cup {<<f>> : f \in SingleFrames} \cup SingleLeaves
         \cup MultiSelections \cup {<<T6>>, <<T1, T6>>, <<T6, T5>>, <<G1, T6>>, <<G2>>, <<H1>>, <<N1>>,
                  <<W1>>, <<W2>>, <<M1>>, <<M2>>, <<E1>>, <<E2>>, <<E3>>,
                  <<P1>>, <<P2>>}
         \cup {<<r>> : r \in NestedRoots}

\* ids the UI may send back as confirmed
CtaIdPool == {"f", "t6"}

(***************************************************************************)
(* Colours.  A channel, an opacity and every number computed from them is  *)
(* an exact fraction <<numerator, denominator>> in lowest terms.           *)
(***************************************************************************)
RECURSIVE GCD(_, _)
GCD(a, b) == IF b = 0 THEN a ELSE GCD(b, a % b)

Frac(n, d) == LET g == GCD(n, d) IN IF g = 0 THEN <<0, 1>> ELSE <<n \div g, d \div g>>

Times(x, y) == Frac(x[1] * y[1], x[2] * y[2])

Plus(x, y) == Frac(x[1] * y[2] + y[1] * x[2], x[2] * y[2])

OneMinus(x) == Frac(x[2] - x[1], x[2])

AtLeast(x, y) == x[1] * y[2] >= y[1] * x[2]

Rgb(r, g, b) == [r |-> r, g |-> g, b |-> b]

\* a Paint; a gradient is kept by its first stop: color is the stop's r, g, b
\* and opacity its a
Paint(type, visible, color, opacity) ==
  [type |-> type, visible |-> visible, color |-> color, opacity |-> opacity]

\* stands for an absent number: no fraction has the denominator 0
Undefined == <<0, 0>>

HexDigits == <<"0", "1", "2", "3", "4", "5", "6", "7", "8", "9", "a", "b", "c", "d", "e", "f">>

\* Number.prototype.toString(16) of a natural number
RECURSIVE toString16(_)
toString16(v) ==
  IF v < 16 THEN <<HexDigits[v + 1]>>
  ELSE toString16(v \div 16) \o <<HexDigits[(v % 16) + 1]>>

\* the whole number nearest below c * 255
Truncated255(c) == (255 * c[1]) \div c[2]

\* Math.round(c * 255)
Rounded255(c) == (2 * 255 * c[1] + c[2]) \div (2 * c[2])

\* .slice(-2)
LastTwo(s) == IF Len(s) <= 2 THEN s ELSE SubSeq(s, Len(s) - 1, Len(s))

toHex(c) == LastTwo(<<"0">> \o toString16(Rounded255(c)))

figmaColorToHex(color) == <<"#">> \o toHex(color.r) \o toHex(color.g) \o toHex(color.b)

blendColors(fg, a, bg) ==
  Rgb(Plus(Times(fg.r, a), Times(bg.r, OneMinus(a))),
      Plus(Times(fg.g, a), Times(bg.g, OneMinus(a))),
      Plus(Times(fg.b, a), Times(bg.b, OneMinus(a))))

NoHex == <<>>

Resolved(hex, rgb) == [hex |-> hex, rgb |-> rgb]

\* opacity ?? 1
OrOne(opacity) == IF opacity = Undefined THEN Frac(1, 1) ELSE opacity

\* no opacity counts as opaque
NeverOpaque(opacity) == FALSE

\* opacity >= 0.99
IsOpaque(opacity) == AtLeast(opacity, Frac(99, 100))

\* the colour, or the colour blended over the background when it is not opaque
resolveColor(color, opacity, parentBgColor) ==
  IF IsOpaque(opacity)
  THEN Resolved(figmaColorToHex(color), color)
  ELSE LET finalRgb == blendColors(color, opacity, parentBgColor)
       IN Resolved(figmaColorToHex(finalRgb), finalRgb)

IsVisibleSolid(f) == f.type = "SOLID" /\ f.visible # FALSE

IsVisibleFill(f) == f.visible # FALSE

\* the places of the fills that fills.find looks for
SolidAt(fs) == {i \in 1..Len(fs) : IsVisibleSolid(fs[i])}

VisibleAt(fs) == {i \in 1..Len(fs) : IsVisibleFill(fs[i])}

\* what fills.find returns when there is such a fill: the first of them
FirstAt(fs, places) == fs[CHOOSE i \in places : \A j \in places : i <= j]

getEffectiveBackgroundColorForFills_cta(fs, parentBgColor) ==
  IF SolidAt(fs) = {} THEN Resolved(NoHex, parentBgColor)
  ELSE LET fill == FirstAt(fs, SolidAt(fs))
       IN resolveColor(fill.color, OrOne(fill.opacity), parentBgColor)

getEffectiveBackgroundColorForFills_img(fs, parentBgColor) ==
  IF VisibleAt(fs) = {} THEN Resolved(NoHex, parentBgColor)
  ELSE LET visibleFill == FirstAt(fs, VisibleAt(fs))
       IN IF visibleFill.type \in {"SOLID", "GRADIENT_LINEAR"}
          THEN resolveColor(visibleFill.color, OrOne(visibleFill.opacity), parentBgColor)
          ELSE Resolved(NoHex, parentBgColor)

(***************************************************************************)
(* The background behind a node and the border drawn on it.  A node is     *)
(* handed to these helpers by its strokes, its stroke weight and the fill  *)
(* lists of its ancestors, from its parent outward to the last one below   *)
(* the page.                                                               *)
(***************************************************************************)
Subject(strokes, strokeWeight, ancestors) ==
  [strokes |-> strokes, strokeWeight |-> strokeWeight, ancestors |-> ancestors]

NoSubject == Subject(<<>>, 0, <<>>)

\* white, whatever the ancestors are
AlwaysWhite(ancestors) == Rgb(Frac(1, 1), Frac(1, 1), Frac(1, 1))

RECURSIVE findParentBackgroundColor_cta(_)
findParentBackgroundColor_cta(ancestors) ==
  IF ancestors = <<>> THEN Rgb(Frac(1, 1), Frac(1, 1), Frac(1, 1))
  ELSE LET parentFills == Head(ancestors)
       IN IF /\ SolidAt(parentFills) # {}
             /\ IsOpaque(OrOne(FirstAt(parentFills, SolidAt(parentFills)).opacity))
          THEN FirstAt(parentFills, SolidAt(parentFills)).color
          ELSE findParentBackgroundColor_cta(Tail(ancestors))

\* the places of the visible solid and gradient fills
SolidOrGradientAt(fs) ==
  {i \in 1..Len(fs) :
     fs[i].type \in {"SOLID", "GRADIENT_LINEAR"} /\ fs[i].visible # FALSE}

RECURSIVE findParentBackgroundColor_img(_)
findParentBackgroundColor_img(ancestors) ==
  IF ancestors = <<>> THEN Rgb(Frac(1, 1), Frac(1, 1), Frac(1, 1))
  ELSE LET parentFills == Head(ancestors)
       IN IF /\ SolidOrGradientAt(parentFills) # {}
             /\ IsOpaque(OrOne(FirstAt(parentFills, SolidOrGradientAt(parentFills)).opacity))
          THEN FirstAt(parentFills, SolidOrGradientAt(parentFills)).color
          ELSE findParentBackgroundColor_img(Tail(ancestors))

\* `border: ${weight}px solid ${color};`
Border(weight, color) == [weight |-> weight, color |-> color]

\* null
NoBorder == Border(0, <<>>)

Black == <<"#", "0", "0", "0", "0", "0", "0">>

getBorderStyles_img(node) ==
  LET stroke == FirstAt(node.strokes, SolidAt(node.strokes))
      weight == Round(node.strokeWeight)
      parentBg == findParentBackgroundColor_img(node.ancestors)
      colorHex == getEffectiveBackgroundColorForFills_img(<<stroke>>, parentBg).hex
  IN IF node.strokes = <<>> \/ node.strokeWeight = 0 \/ SolidAt(node.strokes) = {}
          \/ weight = 0
     THEN NoBorder
     ELSE Border(weight, IF colorHex = NoHex THEN Black ELSE colorHex)

(***************************************************************************)
(* Style strings, as sequences of characters.                              *)
(***************************************************************************)
\* String.prototype.split on a one-character separator
RECURSIVE Split(_, _)
Split(s, sep) ==
  IF \A i \in 1..Len(s) : s[i] # sep THEN <<s>>
  ELSE LET at == CHOOSE i \in 1..Len(s) : s[i] = sep /\ \A j \in 1..(i - 1) : s[j] # sep
       IN <<SubSeq(s, 1, at - 1)>> \o Split(SubSeq(s, at + 1, Len(s)), sep)

\* Array.prototype.join
RECURSIVE Join(_, _)
Join(parts, sep) ==
  IF parts = <<>> THEN <<>>
  ELSE IF Len(parts) = 1 THEN parts[1]
  ELSE parts[1] \o sep \o Join(Tail(parts), sep)

StartsWith(s, prefix) == Len(s) >= Len(prefix) /\ SubSeq(s, 1, Len(prefix)) = prefix

\* String.prototype.includes
Includes(s, part) ==
  \E i \in 1..(Len(s) - Len(part) + 1) : SubSeq(s, i, i + Len(part) - 1) = part

\* Array.prototype.filter
RECURSIVE Keep(_, _)
Keep(s, wanted) ==
  IF s = <<>> THEN <<>>
  ELSE (IF Head(s) \in wanted THEN <<Head(s)>> ELSE <<>>) \o Keep(Tail(s), wanted)

\* [...new Set(items)]
RECURSIVE Distinct(_)
Distinct(items) ==
  IF items = <<>> THEN <<>>
  ELSE LET before == Distinct(SubSeq(items, 1, Len(items) - 1))
           last == items[Len(items)]
       IN IF \E i \in 1..Len(before) : before[i] = last THEN before ELSE before \o <<last>>

MarginWord == <<"m", "a", "r", "g", "i", "n">>

PaddingWord == <<"p", "a", "d", "d", "i", "n", "g">>

BorderWord == <<"b", "o", "r", "d", "e", "r">>

BorderRadiusWord == <<"b", "o", "r", "d", "e", "r", "-", "r", "a", "d", "i", "u", "s">>

FontFamilyWord == <<"f", "o", "n", "t", "-", "f", "a", "m", "i", "l", "y">>

\* what /^0(px|pt|em|rem|%|vw|vh)?$/ accepts
ZeroLengths_cta ==
  {<<"0">>, <<"0", "p", "x">>, <<"0", "p", "t">>, <<"0", "e", "m">>, <<"0", "r", "e", "m">>,
   <<"0", "%">>, <<"0", "v", "w">>, <<"0", "v", "h">>}

\* what /^0(px|pt|em|%|vw|vh)?$/ accepts
ZeroLengths_img == ZeroLengths_cta \ {<<"0", "r", "e", "m">>}

\* no value passes for a zero length
NeverZero(value) == FALSE

isZeroLength_cta(value) == value \in ZeroLengths_cta

isZero_img(value) == value \in ZeroLengths_img

\* the filter of cleanZeroValueStyles: TRUE when the rule stays
keepsRule_cta(rule) ==
  LET parts == Split(rule, ":")
  IN /\ Trim(rule) # <<>>
     /\ \/ Len(parts) < 2
        \/ ~ /\ Split(Trim(parts[1]), "-")[1] \in {MarginWord, PaddingWord, BorderWord, BorderRadiusWord}
             /\ isZeroLength_cta(Trim(parts[2]))

keepsRule_img(rule) ==
  LET parts == Split(rule, ":")
      key == Trim(parts[1])
  IN /\ Trim(rule) # <<>>
     /\ \/ Len(parts) < 2
        \/ Trim(parts[2]) = <<>>
        \/ ~ \/ Includes(key, BorderRadiusWord)
             \/ /\ \/ StartsWith(key, PaddingWord)
                   \/ StartsWith(key, MarginWord)
                   \/ StartsWith(key, BorderWord)
                /\ isZero_img(Trim(parts[2]))

cleanZeroValueStyles_cta(styleStr) ==
  LET rules == Split(styleStr, ";")
  IN IF styleStr = <<>> THEN <<>>
     ELSE Join(Keep(rules, {r \in Range(rules) : keepsRule_cta(r)}), <<";">>)

cleanZeroValueStyles_img(styleStr) ==
  LET rules == Split(styleStr, ";")
  IN IF styleStr = <<>> THEN <<>>
     ELSE Join(Keep(rules, {r \in Range(rules) : keepsRule_img(r)}), <<";">>)

\* Map.prototype.set on a map kept as its entries in insertion order
MapSet(entries, prop, value) ==
  IF \E i \in 1..Len(entries) : entries[i][1] = prop
  THEN [i \in 1..Len(entries) |->
          IF entries[i][1] = prop THEN <<prop, value>> ELSE entries[i]]
  ELSE entries \o <<<<prop, value>>>>

\* value.split(",").map((f) => f.trim().replace(/'/g, "")), made distinct, joined
fontList(value) ==
  LET fonts == Split(value, ",")
      clean == [i \in 1..Len(fonts) |->
                  LET f == Trim(fonts[i]) IN Keep(f, Range(f) \ {"'"})]
  IN Join(Distinct(clean), <<",", " ">>)

\* the forEach of sanitizeStyles on one rule
setRule_cta(entries, rule) ==
  LET parts == Split(rule, ":")
      key == parts[1]
      value == Trim(Join(Tail(parts), <<":">>))
      prop == Trim(key)
  IN IF key = <<>> \/ value = <<>> THEN entries
     ELSE IF prop = FontFamilyWord THEN MapSet(entries, prop, fontList(value))
     ELSE MapSet(entries, prop, value)

setRule_img(entries, rule) ==
  LET parts == Split(rule, ":")
      key == parts[1]
      value == Trim(Join(Tail(parts), <<":">>))
  IN IF key = <<>> \/ value = <<>> THEN entries
     ELSE MapSet(entries, Trim(key), value)

RECURSIVE styleMap_cta(_)
styleMap_cta(rules) ==
  IF rules = <<>> THEN <<>>
  ELSE setRule_cta(styleMap_cta(SubSeq(rules, 1, Len(rules) - 1)), rules[Len(rules)])

RECURSIVE styleMap_img(_)
styleMap_img(rules) ==
  IF rules = <<>> THEN <<>>
  ELSE setRule_img(styleMap_img(SubSeq(rules, 1, Len(rules) - 1)), rules[Len(rules)])

\* `${k}:${v}` of every entry, joined by ";"
entriesToString(entries) ==
  Join([i \in 1..Len(entries) |-> entries[i][1] \o <<":">> \o entries[i][2]], <<";">>)

NonBlank(rules) == Keep(rules, {r \in Range(rules) : Trim(r) # <<>>})

sanitizeStyles_cta(styleStr) ==
  IF styleStr = <<>> THEN <<>>
  ELSE entriesToString(styleMap_cta(NonBlank(Split(styleStr, ";"))))

sanitizeStyles_img(styleStr) ==
  IF styleStr = <<>> THEN <<>>
  ELSE entriesToString(styleMap_img(NonBlank(Split(styleStr, ";"))))

(***************************************************************************)
(* The inputs the helpers are applied to.                                  *)
(***************************************************************************)
MaxFills == 2
MaxDecls == 2
MaxPasses == 2

Red == Rgb(Frac(1, 1), Frac(0, 1), Frac(0, 1))
Blue == Rgb(Frac(0, 1), Frac(0, 1), Frac(1, 1))
White == Rgb(Frac(1, 1), Frac(1, 1), Frac(1, 1))
Grey == Rgb(Frac(1, 2), Frac(1, 2), Frac(1, 2))

Backgrounds == {Red, Blue, White, Grey}

FillPool ==
  {Paint("SOLID", TRUE, Red, Frac(1, 2)),
   Paint("SOLID", TRUE, Red, Undefined),
   Paint("SOLID", TRUE, Grey, Frac(99, 100)),
   Paint("SOLID", TRUE, Blue, Frac(98, 100)),
   Paint("SOLID", FALSE, Blue, Frac(1, 1)),
   Paint("IMAGE", TRUE, White, Undefined),
   Paint("GRADIENT_LINEAR", TRUE, Blue, Frac(1, 2))}

FillLists == DistinctSeqs(FillPool, MaxFills)

\* the declarations style strings are made of:
\*   'padding-left:0px' | 'color:red' | 'border:0' | 'margin-top:0em' | 'padding:0%' | 'margin: 0pt ' | 'color:blue' | ' :x' | 'border-radius:4px' | 'padding:4px 0' | "font-family:'a', a,b" | "font-family:'" | 'width' | ' ' | 'margin:0rem' | 'a::0'
Declarations ==
  {<<"p", "a", "d", "d", "i", "n", "g", "-", "l", "e", "f", "t", ":", "0", "p", "x">>,
   <<"c", "o", "l", "o", "r", ":", "r", "e", "d">>,
   <<"b", "o", "r", "d", "e", "r", ":", "0">>,
   <<"m", "a", "r", "g", "i", "n", "-", "t", "o", "p", ":", "0", "e", "m">>,
   <<"p", "a", "d", "d", "i", "n", "g", ":", "0", "%">>,
   <<"m", "a", "r", "g", "i", "n", ":", " ", "0", "p", "t", " ">>,
   <<"c", "o", "l", "o", "r", ":", "b", "l", "u", "e">>,
   <<" ", ":", "x">>,
   <<"b", "o", "r", "d", "e", "r", "-", "r", "a", "d", "i", "u", "s", ":", "4", "p", "x">>,
   <<"p", "a", "d", "d", "i", "n", "g", ":", "4", "p", "x", " ", "0">>,
   <<"f", "o", "n", "t", "-", "f", "a", "m", "i", "l", "y", ":", "'", "a", "'", ",", " ", "a", ",", "b">>,
   <<"f", "o", "n", "t", "-", "f", "a", "m", "i", "l", "y", ":", "'">>,
   <<"w", "i", "d", "t", "h">>,
   <<" ">>,
   <<"m", "a", "r", "g", "i", "n", ":", "0", "r", "e", "m">>,
   <<"a", ":", ":", "0">>}

PaddingLeftZeroColorRed == <<"p", "a", "d", "d", "i", "n", "g", "-", "l", "e", "f", "t", ":", "0", "p", "x", ";", "c", "o", "l", "o", "r", ":", "r", "e", "d">>

BorderZero == <<"b", "o", "r", "d", "e", "r", ":", "0">>

StyleStrings ==
  {Join(ds, <<";">>) : ds \in UNION {[1..n -> Declarations] : n \in 0..MaxDecls}}

\* the nodes the bullet classifier is applied to
Label(chars) == Text("b", TRUE, 0, Px(10), Run(chars))

ClassifierKids ==
  {Label(<<"U+2022">>), Label(<<"U+2022", "U+2022">>), Label(<<" ", "-", " ">>),
   Label(<<"O", "k">>), K1}

ClassifierInputs ==
  {Box("f", type, visible, 0, Px(100), layoutMode, "none", kids) :
     type \in {"FRAME", "INSTANCE"}, visible \in BOOLEAN,
     layoutMode \in {"HORIZONTAL", "VERTICAL"},
     kids \in UNION {[1..n -> ClassifierKids] : n \in 0..(MaxKids + 1)}}
   \cup {Box("f", "GROUP", TRUE, 0, Px(100), "ABSENT", "none", kids) :
            kids \in [1..2 -> ClassifierKids]}

\* the fill lists of ancestors, and chains of them
MaxDepth == 2

AncestorFills ==
  {<<>>,
   <<Paint("SOLID", TRUE, Red, Undefined)>>,
   <<Paint("SOLID", TRUE, Red, Frac(1, 2))>>,
   <<Paint("SOLID", TRUE, Red, Frac(1, 2)), Paint("SOLID", TRUE, Blue, Frac(1, 1))>>,
   <<Paint("SOLID", FALSE, Blue, Frac(1, 1)), Paint("SOLID", TRUE, Grey, Frac(99, 100))>>,
   <<Paint("GRADIENT_LINEAR", TRUE, Blue, Frac(1, 1))>>,
   <<Paint("IMAGE", TRUE, White, Undefined), Paint("SOLID", TRUE, Blue, Undefined)>>}

AncestorChains == UNION {[1..n -> AncestorFills] : n \in 0..MaxDepth}

StrokeLists ==
  {<<>>,
   <<Paint("SOLID", TRUE, Red, Frac(1, 2))>>,
   <<Paint("SOLID", TRUE, Red, Undefined)>>,
   <<Paint("SOLID", FALSE, Blue, Undefined), Paint("SOLID", TRUE, Blue, Frac(1, 2))>>}

StrokeWeights == {0, 1, Px(1), Px(2)}

(***************************************************************************)
(* State.  One behaviour exercises one of: a parser object of revision     *)
(* _cta, a parser object of revision _img, or the plugin's message         *)
(* handlers of revision _cta.                                              *)
(***************************************************************************)
VARIABLES
  component,        \* which of the three is being exercised
  doc,              \* the nodes the user works on
  nodes,            \* the node list of the latest parse call
  html,             \* the markup the latest parse call returned
  parseCalls,       \* parse calls made on the parser object so far
  confirmedCtaIds,  \* _cta: FigmaPluginParser.confirmedCtaIds
  htmlIds,          \* _cta: the confirmed ids the latest parse call read
  imageAssets,      \* _img: FigmaPluginParser.imageAssets
  imageCounter,     \* _img: FigmaPluginParser.imageCounter
  imageExportMode,  \* _img: the mode of the latest parse call
  pc,               \* _img: "idle", or "parsing" while a parse call is suspended
  todo,             \* _img: nodes whose export the pass has yet to call, in walk order
  inflight,         \* _img: ids of export calls made and not yet settled
  outcome,          \* _img: settled export calls of the pass, in settling order
  selection,        \* plugin: figma.currentPage.selection
  handled,          \* plugin: the latest UI message handled
  posted,           \* plugin: the latest message posted to the UI
  fills,            \* helper: the fills handed to getEffectiveBackgroundColorForFills
  parentBgColor,    \* helper: the background handed along with them
  styleStr,         \* helper: the style string handed to the accumulation
  results,          \* helper: what the helper returned, call after call
  subject,          \* helper: the node handed to a helper that takes one
  loadingFonts,     \* plugin _img: fonts whose loadFontAsync call is unsettled
  loadedFonts       \* plugin _img: fonts whose loadFontAsync call has completed

vars ==
  <<component, doc, nodes, html, parseCalls, confirmedCtaIds, htmlIds, imageAssets,
    imageCounter, imageExportMode, pc, todo, inflight, outcome, selection,
    handled, posted, fills, parentBgColor, styleStr, results, subject,
    loadingFonts, loadedFonts>>

fontVars == <<loadingFonts, loadedFonts>>

helperVars == <<fills, parentBgColor, styleStr, results, subject>>

parserVars_cta == <<confirmedCtaIds, htmlIds>>

parserVars_img == <<imageAssets, imageCounter, imageExportMode, pc, todo, inflight, outcome>>

pluginVars == <<selection, handled, posted>>

NoMessage == [type |-> "none", ids |-> {}, html |-> <<>>, ctas |-> <<>>]

Message(type, ids, markup, ctas) ==
  [type |-> type, ids |-> ids, html |-> markup, ctas |-> ctas]

Init ==
  /\ component \in {"parser_cta", "parser_img", "plugin_cta", "plugin_img"}
  /\ doc \in Documents
  /\ nodes = <<>>
  /\ html = <<>>
  /\ parseCalls = 0
  /\ confirmedCtaIds = {}
  /\ htmlIds = {}
  /\ imageAssets = <<>>
  /\ imageCounter = 0
  /\ imageExportMode = "placeholder"
  /\ pc = "idle"
  /\ todo = <<>>
  /\ inflight = {}
  /\ outcome = <<>>
  /\ selection = <<>>
  /\ handled = NoMessage
  /\ posted = NoMessage
  /\ fills = <<>>
  /\ parentBgColor = White
  /\ styleStr = <<>>
  /\ results = <<>>
  /\ subject = NoSubject
  /\ loadingFonts = {}
  /\ loadedFonts = {}

(***************************************************************************)
(* Revision _cta: the parser object.                                       *)
(***************************************************************************)
setConfirmedCtaIds(ids) ==
  /\ component = "parser_cta"
  /\ confirmedCtaIds' = ids
  /\ UNCHANGED helperVars
  /\ UNCHANGED fontVars
  /\ UNCHANGED <<component, doc, nodes, html, parseCalls, htmlIds>>
  /\ UNCHANGED parserVars_img
  /\ UNCHANGED pluginVars

ParseCta(ns) ==
  /\ component = "parser_cta"
  /\ nodes' = ns
  /\ html' = parse_cta(ns, confirmedCtaIds)
  /\ htmlIds' = confirmedCtaIds
  /\ UNCHANGED helperVars
  /\ UNCHANGED fontVars
  /\ UNCHANGED <<component, doc, parseCalls, confirmedCtaIds>>
  /\ UNCHANGED parserVars_img
  /\ UNCHANGED pluginVars

(***************************************************************************)
(* Revision _img: the parser object.  parse is suspended at every          *)
(* `await node.exportAsync(...)`; the host settles the call later.         *)
(***************************************************************************)
\* lines 659-661: the early return for an empty list precedes the reset
assetsAtEntry(ns, assets) == IF ns = <<>> THEN assets ELSE <<>>

counterKept(ns, counter) == counter

counterAtEntry(ns, counter) == IF ns = <<>> THEN counter ELSE 0

NewParser ==
  /\ component = "parser_img"
  /\ pc = "idle"
  /\ parseCalls > 0
  /\ parseCalls' = 0
  /\ imageAssets' = <<>>
  /\ imageCounter' = 0
  /\ UNCHANGED helperVars
  /\ UNCHANGED fontVars
  /\ UNCHANGED <<component, doc, nodes, html, imageExportMode, pc, todo, inflight, outcome>>
  /\ UNCHANGED parserVars_cta
  /\ UNCHANGED pluginVars

ParseCall(ns, mode) ==
  /\ component = "parser_img"
  /\ pc = "idle"
  /\ parseCalls < MaxParses
  /\ parseCalls' = parseCalls + 1
  /\ nodes' = ns
  /\ imageExportMode' = mode
  /\ imageAssets' = assetsAtEntry(ns, imageAssets)
  /\ imageCounter' = counterAtEntry(ns, imageCounter)
  /\ todo' = exportCalls(ns, mode)
  /\ inflight' = {}
  /\ outcome' = <<>>
  /\ html' = <<>>
  /\ pc' = IF ns = <<>> THEN "idle" ELSE "parsing"
  /\ UNCHANGED helperVars
  /\ UNCHANGED fontVars
  /\ UNCHANGED <<component, doc>>
  /\ UNCHANGED parserVars_cta
  /\ UNCHANGED pluginVars

PreviousExportIgnored == TRUE

\* `await`: the walk does not go on while an export call is unsettled
PreviousExportSettled == inflight = {}

ExportCall ==
  /\ component \in {"parser_img", "plugin_img"}
  /\ pc = "parsing"
  /\ todo # <<>>
  /\ PreviousExportSettled
  /\ inflight' = inflight \cup {Head(todo).id}
  /\ todo' = Tail(todo)
  /\ UNCHANGED helperVars
  /\ UNCHANGED fontVars
  /\ UNCHANGED <<component, doc, nodes, html, parseCalls, imageAssets, imageCounter,
                 imageExportMode, pc, outcome>>
  /\ UNCHANGED parserVars_cta
  /\ UNCHANGED pluginVars

ExportResolve(id) ==
  /\ component \in {"parser_img", "plugin_img"}
  /\ id \in inflight
  /\ inflight' = inflight \ {id}
  /\ IF imageExportMode = "download"
     THEN /\ imageCounter' = imageCounter + 1
          /\ imageAssets' = Append(imageAssets, [name |-> imageCounter + 1, data |-> id])
          /\ outcome' = Append(outcome, [id |-> id, ok |-> TRUE, num |-> imageCounter + 1])
     ELSE /\ outcome' = Append(outcome, [id |-> id, ok |-> TRUE, num |-> 0])
          /\ UNCHANGED <<imageAssets, imageCounter>>
  /\ UNCHANGED helperVars
  /\ UNCHANGED fontVars
  /\ UNCHANGED <<component, doc, nodes, html, parseCalls, imageExportMode, pc, todo>>
  /\ UNCHANGED parserVars_cta
  /\ UNCHANGED pluginVars

ExportRejectCounted(id) ==
  /\ component \in {"parser_img", "plugin_img"}
  /\ id \in inflight
  /\ inflight' = inflight \ {id}
  /\ imageCounter' = imageCounter + 1
  /\ outcome' = Append(outcome, [id |-> id, ok |-> FALSE, num |-> 0])
  /\ UNCHANGED helperVars
  /\ UNCHANGED fontVars
  /\ UNCHANGED <<component, doc, nodes, html, parseCalls, imageAssets,
                 imageExportMode, pc, todo>>
  /\ UNCHANGED parserVars_cta
  /\ UNCHANGED pluginVars

\* the catch of renderImage: nothing is counted or stored
ExportReject(id) ==
  /\ component \in {"parser_img", "plugin_img"}
  /\ id \in inflight
  /\ inflight' = inflight \ {id}
  /\ outcome' = Append(outcome, [id |-> id, ok |-> FALSE, num |-> 0])
  /\ UNCHANGED helperVars
  /\ UNCHANGED fontVars
  /\ UNCHANGED <<component, doc, nodes, html, parseCalls, imageAssets, imageCounter,
                 imageExportMode, pc, todo>>
  /\ UNCHANGED parserVars_cta
  /\ UNCHANGED pluginVars

ParseReturn ==
  /\ component \in {"parser_img", "plugin_img"}
  /\ pc = "parsing"
  /\ todo = <<>>
  /\ inflight = {}
  /\ html' = parseResult_img(nodes, imageExportMode, outcome)
  /\ pc' = "idle"
  /\ UNCHANGED helperVars
  /\ UNCHANGED fontVars
  /\ UNCHANGED <<component, doc, nodes, parseCalls, imageAssets, imageCounter,
                 imageExportMode, todo, inflight, outcome>>
  /\ UNCHANGED parserVars_cta
  /\ posted' = IF component = "plugin_img"
               THEN Message("generated-html", {}, html', <<>>)
               ELSE posted
  /\ UNCHANGED <<selection, handled>>

getCollectedImageAssets == imageAssets

(***************************************************************************)
(* Revision _cta: the plugin's message handlers (src/code.ts 652-685).     *)
(***************************************************************************)
RECURSIVE findAll(_)
RECURSIVE findAllIn(_)

findAllSkipped(node) == <<>>

\* node.findAll(() => true): every descendant, in document order
findAll(node) == findAllIn(node.children)

findAllIn(children) ==
  IF children = <<>> THEN <<>>
  ELSE <<Head(children)>> \o findAll(Head(children)) \o findAllIn(Tail(children))

\* the reduce of the 'generate-html-for-selection' handler
RECURSIVE allNodes(_)
allNodes(selectedNodes) ==
  IF selectedNodes = <<>> THEN <<>>
  ELSE LET node == Head(selectedNodes)
           children == IF node.type \in ContainerTypes THEN findAll(node) ELSE <<>>
       IN <<node>> \o children \o allNodes(Tail(selectedNodes))

potentialCtas(selectedNodes) == SelectSeq(allNodes(selectedNodes), isPotentialCta)

Ids(nodeSeq) == [i \in 1..Len(nodeSeq) |-> nodeSeq[i].id]

\* what processSelection posts
processSelection(ids) ==
  IF selection = <<>>
  THEN Message("generated-html", {}, <<>>, <<>>)
  ELSE Message("generated-html", {}, parse_cta(selection, ids), <<>>)

SelectionChange(s) ==
  /\ component \in {"plugin_cta", "plugin_img"}
  /\ s # selection
  /\ selection' = s
  /\ UNCHANGED helperVars
  /\ UNCHANGED fontVars
  /\ UNCHANGED <<component, doc, nodes, html, parseCalls, handled, posted>>
  /\ UNCHANGED parserVars_cta
  /\ UNCHANGED parserVars_img

OnGenerate ==
  /\ component = "plugin_cta"
  /\ handled' = Message("generate-html-for-selection", {}, <<>>, <<>>)
  /\ posted' = IF Len(potentialCtas(selection)) > 0
               THEN Message("request-cta-confirmations", {}, <<>>,
                            Ids(potentialCtas(selection)))
               ELSE processSelection({})
  /\ UNCHANGED helperVars
  /\ UNCHANGED fontVars
  /\ UNCHANGED <<component, doc, nodes, html, parseCalls, selection>>
  /\ UNCHANGED parserVars_cta
  /\ UNCHANGED parserVars_img

OnCtaResponse(ids) ==
  /\ component = "plugin_cta"
  /\ handled' = Message("cta-confirmations-response", ids, <<>>, <<>>)
  /\ posted' = processSelection(ids)
  /\ UNCHANGED helperVars
  /\ UNCHANGED fontVars
  /\ UNCHANGED <<component, doc, nodes, html, parseCalls, selection>>
  /\ UNCHANGED parserVars_cta
  /\ UNCHANGED parserVars_img

\* findFonts of collectAndLoadAllFonts: the font of every text node of the
\* subtrees that has one font throughout
RECURSIVE findFonts(_)
findFonts(forest) ==
  IF forest = <<>> THEN {}
  ELSE LET node == Head(forest)
       IN (IF node.type = "TEXT" /\ FontName(node) # "mixed" THEN {FontName(node)} ELSE {})
          \cup findFonts(node.children)
          \cup findFonts(Tail(forest))

\* the 'generate-html-for-selection' handler of revision _img, up to the
\* await in collectAndLoadAllFonts (or to its end when nothing is selected)
OnGenerate_img(mode) ==
  /\ component = "plugin_img"
  /\ pc = "idle"
  /\ handled' = Message("generate-html-for-selection", {}, <<>>, <<>>)
  /\ IF selection = <<>>
     THEN /\ posted' = Message("generated-html", {}, <<>>, <<>>)
          /\ UNCHANGED <<nodes, html, imageExportMode, pc, loadingFonts>>
     ELSE /\ nodes' = selection
          /\ html' = <<>>
          /\ imageExportMode' = mode
          /\ loadingFonts' = loadingFonts \cup findFonts(selection)
          /\ pc' = "fonts"
          /\ UNCHANGED posted
  /\ UNCHANGED helperVars
  /\ UNCHANGED <<component, doc, parseCalls, selection, loadedFonts>>
  /\ UNCHANGED <<imageAssets, imageCounter, todo, inflight, outcome>>
  /\ UNCHANGED parserVars_cta

\* a figma.loadFontAsync call completes
FontLoaded(font) ==
  /\ component = "plugin_img"
  /\ font \in loadingFonts
  /\ loadingFonts' = loadingFonts \ {font}
  /\ loadedFonts' = loadedFonts \cup {font}
  /\ UNCHANGED helperVars
  /\ UNCHANGED <<component, doc, nodes, html, parseCalls>>
  /\ UNCHANGED parserVars_cta
  /\ UNCHANGED parserVars_img
  /\ UNCHANGED pluginVars

\* a figma.loadFontAsync call fails: Promise.all rejects and processSelection
\* ends without a parse
FontLoadRejected(font) ==
  /\ component = "plugin_img"
  /\ pc = "fonts"
  /\ font \in loadingFonts
  /\ loadingFonts' = loadingFonts \ {font}
  /\ pc' = "idle"
  /\ UNCHANGED helperVars
  /\ UNCHANGED <<component, doc, nodes, html, parseCalls, loadedFonts>>
  /\ UNCHANGED <<imageAssets, imageCounter, imageExportMode, todo, inflight, outcome>>
  /\ UNCHANGED parserVars_cta
  /\ UNCHANGED pluginVars

\* no wait for the fonts
FontsNotAwaited == TRUE

\* `await Promise.all(...)`: every load has completed
FontsAwaited == loadingFonts = {}

\* processSelection goes on after the fonts: new FigmaPluginParser() and the
\* call of parse
StartParse_img ==
  /\ component = "plugin_img"
  /\ pc = "fonts"
  /\ FontsAwaited
  /\ imageAssets' = <<>>
  /\ imageCounter' = 0
  /\ todo' = exportCalls(nodes, imageExportMode)
  /\ inflight' = {}
  /\ outcome' = <<>>
  /\ pc' = "parsing"
  /\ UNCHANGED helperVars
  /\ UNCHANGED fontVars
  /\ UNCHANGED <<component, doc, nodes, html, parseCalls, imageExportMode>>
  /\ UNCHANGED parserVars_cta
  /\ UNCHANGED pluginVars

(***************************************************************************)
(* The specification.                                                      *)
(***************************************************************************)
Next ==
  \/ \E ids \in SUBSET CtaIdPool : setConfirmedCtaIds(ids)
  \/ \E ns \in {doc, <<>>} : ParseCta(ns)
  \/ NewParser
  \/ \E ns \in {doc, <<>>}, mode \in ImageExportModes : ParseCall(ns, mode)
  \/ ExportCall
  \/ \E id \in inflight : ExportResolve(id)
  \/ \E id \in inflight : ExportReject(id)
  \/ ParseReturn
  \/ \E s \in {doc, <<>>} : SelectionChange(s)
  \/ OnGenerate
  \/ \E ids \in SUBSET CtaIdPool : OnCtaResponse(ids)
  \/ \E mode \in ImageExportModes : OnGenerate_img(mode)
  \/ \E font \in loadingFonts : FontLoaded(font)
  \/ \E font \in loadingFonts : FontLoadRejected(font)
  \/ StartParse_img

Spec == Init /\ [][Next]_vars

(***************************************************************************)
(* The helpers on their own: one behaviour applies one helper of one       *)
(* revision to one input.                                                  *)
(***************************************************************************)
Helpers ==
  {"colour_cta", "colour_img", "style_cta", "style_img", "classifier",
   "ancestor_cta", "ancestor_img", "border_img", "dispatch"}

HelperInit ==
  /\ component \in Helpers
  /\ IF component \in {"classifier", "dispatch"}
     THEN doc \in {<<n>> : n \in ClassifierInputs}
     ELSE doc = <<>>
  /\ nodes = <<>>
  /\ html = <<>>
  /\ parseCalls = 0
  /\ confirmedCtaIds = {}
  /\ htmlIds = {}
  /\ imageAssets = <<>>
  /\ imageCounter = 0
  /\ imageExportMode = "placeholder"
  /\ pc = "idle"
  /\ todo = <<>>
  /\ inflight = {}
  /\ outcome = <<>>
  /\ selection = <<>>
  /\ handled = NoMessage
  /\ posted = NoMessage
  /\ IF component \in {"colour_cta", "colour_img"}
     THEN fills \in FillLists /\ parentBgColor \in Backgrounds
     ELSE fills = <<>> /\ parentBgColor = White
  /\ IF component \in {"style_cta", "style_img"}
     THEN styleStr \in StyleStrings
     ELSE styleStr = <<>>
  /\ IF component \in {"ancestor_cta", "ancestor_img"}
     THEN subject \in {Subject(<<>>, 0, chain) : chain \in AncestorChains}
     ELSE IF component = "border_img"
     THEN subject \in {Subject(strokes, weight, chain) :
                         strokes \in StrokeLists, weight \in StrokeWeights,
                         chain \in AncestorChains}
     ELSE subject = NoSubject
  /\ results = <<>>
  /\ loadingFonts = {}
  /\ loadedFonts = {}

notHelperVars ==
  <<component, doc, nodes, html, parseCalls, parserVars_cta, parserVars_img, pluginVars,
    fontVars>>

\* one call of getEffectiveBackgroundColorForFills
Resolve_cta ==
  /\ component = "colour_cta"
  /\ results = <<>>
  /\ results' = <<getEffectiveBackgroundColorForFills_cta(fills, parentBgColor)>>
  /\ UNCHANGED <<fills, parentBgColor, styleStr, subject, notHelperVars>>

Resolve_img ==
  /\ component = "colour_img"
  /\ results = <<>>
  /\ results' = <<getEffectiveBackgroundColorForFills_img(fills, parentBgColor)>>
  /\ UNCHANGED <<fills, parentBgColor, styleStr, subject, notHelperVars>>

\* the string the next accumulation is applied to
Latest == IF results = <<>> THEN styleStr ELSE results[Len(results)]

\* this.sanitizeStyles(this.cleanZeroValueStyles(...))
Accumulate_cta ==
  /\ component = "style_cta"
  /\ Len(results) < MaxPasses
  /\ results' = Append(results, sanitizeStyles_cta(cleanZeroValueStyles_cta(Latest)))
  /\ UNCHANGED <<fills, parentBgColor, styleStr, subject, notHelperVars>>

Accumulate_img ==
  /\ component = "style_img"
  /\ Len(results) < MaxPasses
  /\ results' = Append(results, sanitizeStyles_img(cleanZeroValueStyles_img(Latest)))
  /\ UNCHANGED <<fills, parentBgColor, styleStr, subject, notHelperVars>>

\* one call of isBulletPoint
Classify ==
  /\ component = "classifier"
  /\ results = <<>>
  /\ results' = <<isBulletPoint(doc[1])>>
  /\ UNCHANGED <<fills, parentBgColor, styleStr, subject, notHelperVars>>

\* one call of findParentBackgroundColor
FindParentBackground_cta ==
  /\ component = "ancestor_cta"
  /\ results = <<>>
  /\ results' = <<findParentBackgroundColor_cta(subject.ancestors)>>
  /\ UNCHANGED <<fills, parentBgColor, styleStr, subject, notHelperVars>>

FindParentBackground_img ==
  /\ component = "ancestor_img"
  /\ results = <<>>
  /\ results' = <<findParentBackgroundColor_img(subject.ancestors)>>
  /\ UNCHANGED <<fills, parentBgColor, styleStr, subject, notHelperVars>>

\* one call of getBorderStyles
BorderStyles_img ==
  /\ component = "border_img"
  /\ results = <<>>
  /\ results' = <<getBorderStyles_img(subject)>>
  /\ UNCHANGED <<fills, parentBgColor, styleStr, subject, notHelperVars>>

\* the tests of renderNode on one container, and the branch they select in
\* either revision of src/code.ts
Dispatch(confirmed) ==
  /\ component = "dispatch"
  /\ results = <<>>
  /\ results' = <<isIconGroup(doc[1]), isBulletPoint(doc[1]), isPotentialCta(doc[1]),
                  renderNodePath_cta(doc[1], confirmed),
                  renderNodePath_earlier(doc[1], confirmed)>>
  /\ confirmedCtaIds' = confirmed
  /\ UNCHANGED <<component, doc, nodes, html, parseCalls, htmlIds>>
  /\ UNCHANGED parserVars_img
  /\ UNCHANGED pluginVars
  /\ UNCHANGED fontVars
  /\ UNCHANGED <<fills, parentBgColor, styleStr, subject>>

HelperNext ==
  \/ \E confirmed \in SUBSET {"f"} : Dispatch(confirmed)
  \/ FindParentBackground_cta
  \/ FindParentBackground_img
  \/ BorderStyles_img
  \/ Classify
  \/ Resolve_cta
  \/ Resolve_img
  \/ Accumulate_cta
  \/ Accumulate_img

HelperSpec == HelperInit /\ [][HelperNext]_vars

(***************************************************************************)
(* Vocabulary of the properties.                                           *)
(***************************************************************************)
\* every element of a piece of markup, outermost first
RECURSIVE ElementsOf(_)
ElementsOf(markup) ==
  IF markup = <<>> THEN <<>>
  ELSE <<Head(markup)>> \o ElementsOf(Head(markup).kids) \o ElementsOf(Tail(markup))

\* every node of a forest, parents first
RECURSIVE NodesOf(_)
NodesOf(forest) ==
  IF forest = <<>> THEN <<>>
  ELSE <<Head(forest)>> \o NodesOf(Head(forest).children) \o NodesOf(Tail(forest))

\* the nodes of a forest that are visible and lie in no invisible subtree
RECURSIVE ShownNodesOf(_)
ShownNodesOf(forest) ==
  IF forest = <<>> THEN <<>>
  ELSE (IF Head(forest).visible
        THEN <<Head(forest)>> \o ShownNodesOf(Head(forest).children)
        ELSE <<>>)
       \o ShownNodesOf(Tail(forest))

HasElement(markup, classes, id) ==
  \E e \in Range(ElementsOf(markup)) : e.cls \in classes /\ e.ref = id

\* a FRAME or GROUP with exactly two children, one text and one rectangle or ellipse
LooksLikeButton(n) ==
  /\ n.type \in {"FRAME", "GROUP"}
  /\ Len(n.children) = 2
  /\ {n.children[1].type, n.children[2].type} \in
       {{"TEXT", "RECTANGLE"}, {"TEXT", "ELLIPSE"}}

(***************************************************************************)
(* C1: a visible two-child text+shape FRAME or GROUP whose id is not in    *)
(* the confirmed set is rendered by the plain-container path and never by  *)
(* the link-button path; link-button markup is only ever emitted for ids   *)
(* of the confirmed set.                                                   *)
(***************************************************************************)
C1_UnconfirmedIsContainer ==
  component = "parser_cta" =>
    /\ \A e \in Range(ElementsOf(html)) :
         e.tag = "table" /\ e.cls = "cta" => e.ref \in htmlIds
    /\ \A n \in Range(ShownNodesOf(nodes)) :
         LooksLikeButton(n) /\ n.id \notin htmlIds =>
           /\ renderNodePath_cta(n, htmlIds) = "renderContainer"
           /\ HasElement(html, {"container", "wrapper"}, n.id)
           /\ ~HasElement(html, {"cta"}, n.id)

\* one candidate confirmed and rendered as a button, the other left a container
C1_Witness ==
  /\ component = "parser_cta"
  /\ nodes = <<G1, T6>>
  /\ htmlIds = {"f"}
  /\ HasElement(html, {"cta"}, "f")
  /\ HasElement(html, {"container"}, "t6")


\* the ids of the selected nodes and of their descendants that look like a button
CandidateIds(forest) == {n.id : n \in {m \in Range(NodesOf(forest)) : LooksLikeButton(m)}}

C2_GenerateStep ==
  IF CandidateIds(selection) # {}
  THEN /\ posted'.type = "request-cta-confirmations"
       /\ Range(posted'.ctas) = CandidateIds(selection)
       /\ posted'.html = <<>>
  ELSE /\ posted'.type = "generated-html"
       /\ posted'.html = IF selection = <<>> THEN <<>> ELSE parse_cta(selection, {})
       /\ \A e \in Range(ElementsOf(posted'.html)) : e.cls # "cta"

C2_MarkupStep ==
  \/ handled'.type = "cta-confirmations-response"
  \/ handled'.type = "generate-html-for-selection" /\ CandidateIds(selection') = {}

(***************************************************************************)
(* C2: handling 'generate-html-for-selection' when a selected node or a    *)
(* nested descendant looks like a button posts 'request-cta-confirmations' *)
(* naming every such node and no markup; markup follows a pending request  *)
(* only once the UI has answered (or asked again for a selection without   *)
(* candidates).  Without candidates the handler posts the markup rendered  *)
(* with an empty confirmed set at once.                                    *)
(***************************************************************************)
C2_ConfirmationRoundTrip ==
  [][ /\ OnGenerate => C2_GenerateStep
      /\ (posted.type = "request-cta-confirmations" /\ posted'.type = "generated-html")
           => C2_MarkupStep ]_vars

\* a request for a nested candidate is pending
C2_Witness ==
  /\ component = "plugin_cta"
  /\ handled.type = "generate-html-for-selection"
  /\ posted.type = "request-cta-confirmations"
  /\ posted.ctas = <<"f">>
  /\ Len(selection) = 1
  /\ selection[1].id = "root"


\* a parse call of revision _img on a non-empty list has returned
Returned_img == component = "parser_img" /\ pc = "idle" /\ parseCalls > 0 /\ nodes # <<>>

IsDownloadImg(e) == e.tag = "img" /\ e.cls = "download"

(***************************************************************************)
(* C3: when a download-mode parse call returns, the k-th image of its      *)
(* markup is image-k and the asset list holds exactly these images in      *)
(* that order -- also on a later parse call on the same parser, which      *)
(* starts again at image-1.                                                *)
(***************************************************************************)
C3_AssetsNumberedInOrder ==
  Returned_img /\ imageExportMode = "download" =>
    LET imgs == SelectSeq(ElementsOf(html), IsDownloadImg)
    IN /\ Len(imageAssets) = Len(imgs)
       /\ imageCounter = Len(imgs)
       /\ \A k \in 1..Len(imgs) :
            /\ imgs[k].num = k
            /\ imageAssets[k].name = k
            /\ imageAssets[k].data = imgs[k].ref
       /\ {imgs[k].ref : k \in 1..Len(imgs)}
            = {o.id : o \in {r \in Range(outcome) : r.ok}}

\* the second call on one parser has stored three images, numbered from 1
C3_Witness ==
  /\ Returned_img
  /\ parseCalls = 2
  /\ imageExportMode = "download"
  /\ [k \in 1..Len(imageAssets) |-> imageAssets[k].name] = <<1, 2, 3>>
  /\ Len(SelectSeq(ElementsOf(html), IsDownloadImg)) = 3


\* the settled calls had call i succeeded: in download mode the successes
\* are numbered 1, 2, ... in the order of the calls
AsIfSucceeded(settled, mode, i) ==
  LET ok(j) == j = i \/ settled[j].ok
  IN [j \in 1..Len(settled) |->
        [id |-> settled[j].id,
         ok |-> ok(j),
         num |-> IF mode = "download" /\ ok(j)
                 THEN Cardinality({k \in 1..j : ok(k)}) ELSE 0]]

\* markup with the fragment of node id replaced by a blank
RECURSIVE Without(_, _)
Without(markup, id) ==
  IF markup = <<>> THEN <<>>
  ELSE LET e == Head(markup)
       IN (IF e.ref = id /\ e.tag \in {"img", "p"}
           THEN <<El("blank", "", id, NoDim, NoDim, 0, <<>>, <<>>)>>
           ELSE <<[e EXCEPT !.kids = Without(e.kids, id)]>>)
          \o Without(Tail(markup), id)

\* markup with every stored image numbered above n numbered one lower
RECURSIVE Lowered(_, _)
Lowered(markup, n) ==
  IF markup = <<>> THEN <<>>
  ELSE LET e == Head(markup)
       IN <<[e EXCEPT !.num = IF IsDownloadImg(e) /\ @ > n THEN @ - 1 ELSE @,
                      !.kids = Lowered(e.kids, n)]>>
          \o Lowered(Tail(markup), n)

FailedCalls == {i \in 1..Len(outcome) : ~outcome[i].ok}

ErrorFragmentOnly(id) ==
  /\ \E e \in Range(ElementsOf(html)) : e.tag = "p" /\ e.cls = "error" /\ e.ref = id
  /\ \A e \in Range(ElementsOf(html)) : e.tag = "img" => e.ref # id

(***************************************************************************)
(* C4: a failed export does not stop the pass; the markup holds an error   *)
(* fragment naming the node in place of its image, and everything else is  *)
(* what the pass would have returned had the export succeeded, except that *)
(* in download mode the images stored after it are numbered one lower.     *)
(***************************************************************************)
C4_FailureIsLocal ==
  Returned_img =>
    \A i \in FailedCalls :
      LET id == outcome[i].id
          asIf == AsIfSucceeded(outcome, imageExportMode, i)
          markup == parseResult_img(nodes, imageExportMode, asIf)
      IN /\ ErrorFragmentOnly(id)
         /\ Without(html, id) = Without(Lowered(markup, asIf[i].num - 1), id)
         /\ imageExportMode = "download" =>
              Len(imageAssets) = Cardinality({k \in 1..Len(outcome) : outcome[k].ok})

\* C4 as stated: everything but the failing node's fragment is exactly what
\* the pass would have returned had the export succeeded
C4_Original ==
  Returned_img =>
    \A i \in FailedCalls :
      LET id == outcome[i].id
          asIf == AsIfSucceeded(outcome, imageExportMode, i)
      IN /\ ErrorFragmentOnly(id)
         /\ Without(html, id) = Without(parseResult_img(nodes, imageExportMode, asIf), id)

\* a download pass returned after its first export failed and a later one succeeded
C4_Witness ==
  /\ Returned_img
  /\ imageExportMode = "download"
  /\ Len(outcome) >= 2
  /\ ~outcome[1].ok
  /\ outcome[2].ok
  /\ ErrorFragmentOnly(outcome[1].id)
  /\ \E e \in Range(ElementsOf(html)) : IsDownloadImg(e) /\ e.ref = outcome[2].id /\ e.num = 1


IsImageFragment(e) == e.tag = "img" \/ (e.tag = "p" /\ e.cls = "error")

(***************************************************************************)
(* C5: within a pass at most one export call is outstanding; the calls     *)
(* are made and settled in the order of the walk over the document, the    *)
(* image fragments of the returned markup stand in that same order, and    *)
(* the stored images are numbered 1, 2, ... in that order.                 *)
(***************************************************************************)
C5_OneExportAtATime ==
  component = "parser_img" =>
    /\ Cardinality(inflight) <= 1
    /\ LET walk == Ids(exportCalls(nodes, imageExportMode))
           made == Len(walk) - Len(todo)
       IN /\ Ids(todo) = SubSeq(walk, made + 1, Len(walk))
          /\ Len(outcome) = made - Cardinality(inflight)
          /\ Ids(outcome) = SubSeq(walk, 1, Len(outcome))
          /\ inflight \subseteq {walk[k] : k \in {made} \cap (1..Len(walk))}
    /\ \A k \in 1..Len(outcome) :
         outcome[k].ok /\ imageExportMode = "download" =>
           outcome[k].num = Cardinality({j \in 1..k : outcome[j].ok})
    /\ Returned_img /\ imageExportMode # "placeholder" =>
         Ids(outcome) = [k \in 1..Len(SelectSeq(ElementsOf(html), IsImageFragment)) |->
                           SelectSeq(ElementsOf(html), IsImageFragment)[k].ref]

\* mid-pass: one image settled, the next one's export outstanding, a third to come
C5_Witness ==
  /\ component = "parser_img"
  /\ pc = "parsing"
  /\ Len(outcome) = 1
  /\ Cardinality(inflight) = 1
  /\ Len(todo) = 1


(***************************************************************************)
(* C6: after any parse call of revision _img has returned, also one made   *)
(* with an empty node list, the asset list holds exactly the images that   *)
(* call stored and the counter their number.                               *)
(***************************************************************************)
C6_AssetsOfThisCallOnly ==
  component = "parser_img" /\ pc = "idle" /\ parseCalls > 0 =>
    LET stored == SelectSeq(outcome, LAMBDA o : o.ok /\ imageExportMode = "download")
    IN /\ [k \in 1..Len(getCollectedImageAssets) |-> getCollectedImageAssets[k].data]
            = Ids(stored)
       /\ imageCounter = Len(stored)

\* the ids a piece of markup, an export call or an asset may be emitted for
ShownIds(forest) == {n.id : n \in Range(ShownNodesOf(forest))} \cup {SelectionRef}

(***************************************************************************)
(* C7: whatever parse returns holds no markup emitted for an invisible     *)
(* node or for a node inside an invisible subtree, and no export call or   *)
(* asset is made for such a node.                                          *)
(***************************************************************************)
C7_NothingForHiddenNodes ==
  /\ \A e \in Range(ElementsOf(html)) : e.ref \in ShownIds(nodes)
  /\ \A o \in Range(outcome) : o.id \in ShownIds(nodes)
  /\ \A a \in Range(imageAssets) : nodes # <<>> => a.data \in ShownIds(nodes)
  /\ inflight \subseteq ShownIds(nodes)

(***************************************************************************)
(* C10: the markup parse returns for several nodes is one table element    *)
(* holding every row.                                                      *)
(***************************************************************************)
C10_OneOuterTable ==
  /\ component = "parser_cta" /\ Len(nodes) >= 2
       => Len(html) = 1 /\ html[1].tag = "table"
  /\ Returned_img /\ Len(nodes) >= 2
       => Len(html) = 1 /\ html[1].tag = "table"


NodeById(forest, id) == CHOOSE n \in Range(NodesOf(forest)) : n.id = id

\* the positions of the filler rows emitted before node id among rows
FillersFor(rows, id) == {k \in 1..Len(rows) : rows[k].cls = "filler" /\ rows[k].ref = id}

\* the positions of the rows holding the markup of node id among rows
RowsFor(rows, id) == {k \in 1..Len(rows) : rows[k].cls = "row" /\ rows[k].ref = id}

StackTables == {e \in Range(ElementsOf(html)) : e.tag = "table" /\ e.cls = "stack"}

\* the filler rows of stack table e are those expected(i, gap) asks for, where
\* gap is the rounded distance from the bottom of the child before the i-th
\* (the top padding for the first) to the top of the i-th; each has the height
\* of its gap and stands right before the row of its child
FillersAsExpected(e, expected(_, _)) ==
  LET parent == NodeById(nodes, e.ref)
      order == StackOrder(parent)
  IN /\ \A k \in 1..Len(e.kids) :
          e.kids[k].cls = "filler" => \E i \in 1..Len(order) : order[i].id = e.kids[k].ref
     /\ \A i \in 1..Len(order) :
          LET child == order[i]
              base == IF i = 1 THEN parent.paddingTop
                      ELSE order[i - 1].y + order[i - 1].height
              gap == Round(child.y - base)
              fillers == FillersFor(e.kids, child.id)
          IN /\ expected(i, gap) <=> fillers # {}
             /\ Cardinality(fillers) <= 1
             /\ \A k \in fillers :
                  /\ e.kids[k].h = PxDim(gap)
                  /\ RowsFor(e.kids, child.id) \in {{}, {k + 1}}

FirstOrGapAbove2(i, gap) == gap > Px(2)

LaterAndGapAbove2(i, gap) == i > 1 /\ gap > Px(2)

(***************************************************************************)
(* C8: in a vertical stack a filler row stands right before a child        *)
(* exactly when the rounded gap between the child's top and the previous   *)
(* child's bottom -- for the first child, the container's top padding --   *)
(* exceeds 2 px, and its height is that gap.                               *)
(***************************************************************************)
C8_FillerBeforeChild ==
  \A e \in StackTables : FillersAsExpected(e, FirstOrGapAbove2)

\* C8 as stated: only a gap to a previous child gives a filler row
C8_Original ==
  \A e \in StackTables : FillersAsExpected(e, LaterAndGapAbove2)

\* a rectangle ending at 20 and a vector starting at 23: one filler row of 3 px
C8_Witness ==
  /\ Len(nodes) = 1
  /\ nodes[1].type = "FRAME"
  /\ Ids(nodes[1].children) = <<"k1", "k3">>
  /\ \E e \in StackTables :
       /\ e.ref = nodes[1].id
       /\ \E k \in FillersFor(e.kids, "k3") : e.kids[k].h = PxDim(Px(3))
       /\ FillersFor(e.kids, "k1") = {}


\* a parse call on several nodes has returned
ReturnedMulti ==
  /\ Len(nodes) >= 2
  /\ component = "parser_cta" \/ Returned_img

\* the rows of the returned markup (inside the outer table where there is one)
StackedRows ==
  IF Len(html) = 1 /\ html[1].tag = "table" /\ html[1].cls = "multi"
  THEN html[1].kids ELSE html

\* the rows of the selected nodes stand in ascending order of y
RowsAscending ==
  \A j, k \in 1..Len(StackedRows) :
    j < k /\ StackedRows[j].cls = "row" /\ StackedRows[k].cls = "row" =>
      NodeById(nodes, StackedRows[j].ref).y <= NodeById(nodes, StackedRows[k].ref).y

\* between the rows of each two consecutive visible nodes there is a filler
\* row exactly when measured(g) exceeds 2 px, of height measured(g), where
\* g = y_next - (y_prev + height_prev)
GapsAsExpected(measured(_)) ==
  LET shown == SelectSeq(SortByY(nodes), IsVisible)
  IN \A i \in 1..(Len(shown) - 1) :
       LET prev == shown[i]
           next == shown[i + 1]
           g == measured(next.y - (prev.y + prev.height))
           fillers == FillersFor(StackedRows, next.id)
           between == {k \in 1..Len(StackedRows) :
                         /\ StackedRows[k].cls = "filler"
                         /\ \E a \in RowsFor(StackedRows, prev.id) : a < k
                         /\ \E b \in RowsFor(StackedRows, next.id) : k < b}
       IN /\ g > Px(2) <=> fillers # {}
          /\ \A k \in fillers : StackedRows[k].h = PxDim(g)
          /\ RowsFor(StackedRows, prev.id) # {} /\ RowsFor(StackedRows, next.id) # {}
               => (g > Px(2) <=> between # {}) /\ fillers \subseteq between

Exact(g) == g

(***************************************************************************)
(* C9: parse of several nodes renders them in ascending y order, and for   *)
(* each two consecutive visible nodes a filler row stands between their    *)
(* rows exactly when the gap g = y_next - (y_prev + height_prev), rounded  *)
(* to a whole pixel, exceeds 2; its height is the rounded gap.             *)
(***************************************************************************)
C9_FillerBetweenSelected ==
  ReturnedMulti => RowsAscending /\ GapsAsExpected(Round)

\* C9 as stated: the gap is compared and used as it is, unrounded
C9_Original ==
  ReturnedMulti => RowsAscending /\ GapsAsExpected(Exact)

\* rectangles at y=0,h=100 and y=150,h=50, given bottom first: rows in y
\* order with one filler row of 50 px between them
C9_Witness ==
  /\ component = "parser_cta"
  /\ Ids(nodes) = <<"t2", "t1">>
  /\ Len(StackedRows) = 3
  /\ StackedRows[1].cls = "row" /\ StackedRows[1].ref = "t1"
  /\ StackedRows[2].cls = "filler" /\ StackedRows[2].h = PxDim(Px(50))
  /\ StackedRows[3].cls = "row" /\ StackedRows[3].ref = "t2"


\* a parse call on a non-empty list has returned
Returned == (component = "parser_cta" /\ nodes # <<>>) \/ Returned_img

\* a row with nothing in it, or with nothing but one cell with nothing in it
StructurallyEmpty(e) ==
  /\ e.tag = "tr"
  /\ e.txt = <<>>
  /\ \/ e.kids = <<>>
     \/ /\ Len(e.kids) = 1
        /\ e.kids[1].tag = "td"
        /\ e.kids[1].txt = <<>>
        /\ e.kids[1].kids = <<>>

(***************************************************************************)
(* C11: whatever parse returns, for one node or for several, holds no      *)
(* entirely empty row and no row whose only content is one empty cell.     *)
(***************************************************************************)
C11_NoEmptyRows ==
  Returned => \A e \in Range(ElementsOf(html)) : ~StructurallyEmpty(e)


SingleContainer ==
  Len(nodes) = 1 /\ nodes[1].type \in {"FRAME", "COMPONENT", "INSTANCE"}

\* the markup is one table emitted for the selected container itself that
\* carries a width and wraps the arrangement of the children
WrappedByOwnTable ==
  /\ Len(html) = 1
  /\ html[1].tag = "table"
  /\ html[1].cls \in {"wrapper", "container"}
  /\ html[1].ref = nodes[1].id
  /\ html[1].w # NoDim

(***************************************************************************)
(* C12: the markup parse returns for a single FRAME, COMPONENT or INSTANCE *)
(* is always an outer table of that container carrying a width, also when  *)
(* the container has no background, border or padding; it is never the     *)
(* bare arrangement of its children and never empty.                       *)
(***************************************************************************)
C12_RootAlwaysWrapped ==
  Returned /\ SingleContainer => WrappedByOwnTable


(***************************************************************************)
(* Properties of the helpers.                                              *)
(***************************************************************************)
ColourResolved == component \in {"colour_cta", "colour_img"} /\ results # <<>>

HalfRedOverBlue ==
  /\ ColourResolved
  /\ fills = <<Paint("SOLID", TRUE, Red, Frac(1, 2))>>
  /\ parentBgColor = Blue

Purple == Rgb(Frac(1, 2), Frac(0, 1), Frac(1, 2))

\* the number a lower-case hex digit stands for
DigitValue(ch) == (CHOOSE i \in 1..16 : HexDigits[i] = ch) - 1

\* two lower-case hex digits that stand for round(c * 255), halves going up
EncodesChannel(digits, c) ==
  /\ Len(digits) = 2
  /\ \A i \in 1..2 : digits[i] \in Range(HexDigits)
  /\ LET v == 16 * DigitValue(digits[1]) + DigitValue(digits[2])
     IN /\ 2 * (v * c[2] - 255 * c[1]) <= c[2]
        /\ 2 * (v * c[2] - 255 * c[1]) > 0 - c[2]

EncodesColour(hex, rgb) ==
  /\ Len(hex) = 7
  /\ hex[1] = "#"
  /\ EncodesChannel(SubSeq(hex, 2, 3), rgb.r)
  /\ EncodesChannel(SubSeq(hex, 4, 5), rgb.g)
  /\ EncodesChannel(SubSeq(hex, 6, 7), rgb.b)

(***************************************************************************)
(* C13: a solid fill of colour (1,0,0) with opacity 0.5 resolved over the  *)
(* background (0,0,1) gives the colour (0.5, 0, 0.5) and the hex string    *)
(* #800080; every hex string a resolution gives writes each channel c of   *)
(* the resolved colour as round(c*255) in two lower-case hex digits.       *)
(***************************************************************************)
C13_BlendAndEncode ==
  /\ HalfRedOverBlue =>
       /\ results[1].rgb = Purple
       /\ results[1].hex = <<"#", "8", "0", "0", "0", "8", "0">>
  /\ ColourResolved /\ results[1].hex # NoHex =>
       EncodesColour(results[1].hex, results[1].rgb)

\* C13 as stated: the same resolution gives the hex string #7f007f
C13_Original ==
  HalfRedOverBlue =>
    /\ results[1].rgb = Purple
    /\ results[1].hex = <<"#", "7", "f", "0", "0", "7", "f">>

C13_Witness ==
  /\ HalfRedOverBlue
  /\ results[1].hex = <<"#", "8", "0", "0", "0", "8", "0">>


\* the first visible fill is a solid one of opacity 0.99 or more
OpaqueSolidFirst ==
  /\ VisibleAt(fills) # {}
  /\ FirstAt(fills, VisibleAt(fills)).type = "SOLID"
  /\ LET opacity == OrOne(FirstAt(fills, VisibleAt(fills)).opacity)
     IN 100 * opacity[1] >= 99 * opacity[2]

\* what the revision under exercise resolves the fills to over a background
ResolutionOver(bg) ==
  IF component = "colour_cta"
  THEN getEffectiveBackgroundColorForFills_cta(fills, bg)
  ELSE getEffectiveBackgroundColorForFills_img(fills, bg)

(***************************************************************************)
(* C14: when the first visible fill is solid with opacity 0.99 or more,    *)
(* the resolved colour is the fill's own colour and the hex string is the  *)
(* one of that colour, and the resolution over any other background gives  *)
(* the same result.                                                        *)
(***************************************************************************)
C14_OpaqueFillWins ==
  ColourResolved /\ OpaqueSolidFirst =>
    /\ results[1].rgb = FirstAt(fills, VisibleAt(fills)).color
    /\ EncodesColour(results[1].hex, FirstAt(fills, VisibleAt(fills)).color)
    /\ \A bg \in Backgrounds : ResolutionOver(bg) = results[1]

C14_Witness ==
  /\ ColourResolved
  /\ OpaqueSolidFirst
  /\ FirstAt(fills, VisibleAt(fills)).opacity = Frac(99, 100)
  /\ parentBgColor # FirstAt(fills, VisibleAt(fills)).color
  /\ results[1].rgb = Grey


Accumulated == component \in {"style_cta", "style_img"} /\ results # <<>>

(***************************************************************************)
(* C15: accumulating styles (zero-value pruning, then deduplication) is    *)
(* idempotent: applied to its own output it returns that output, for       *)
(* every style string.                                                     *)
(***************************************************************************)
C15_Idempotent ==
  Accumulated /\ Len(results) >= 2 => results[2] = results[1]

\* zero lengths: 0, 0px, 0pt, 0em, 0%
ZeroLengthValues ==
  {<<"0">>, <<"0", "p", "x">>, <<"0", "p", "t">>, <<"0", "e", "m">>, <<"0", "%">>}

\* a declaration of a margin, padding or border property with a zero length
IsZeroBoxDeclaration(decl) ==
  LET parts == Split(decl, ":")
  IN /\ Len(parts) >= 2
     /\ \/ StartsWith(Trim(parts[1]), MarginWord)
        \/ StartsWith(Trim(parts[1]), PaddingWord)
        \/ StartsWith(Trim(parts[1]), BorderWord)
     /\ Trim(Join(Tail(parts), <<":">>)) \in ZeroLengthValues

(***************************************************************************)
(* C16: the accumulated style string holds no declaration of a property    *)
(* starting with margin, padding or border whose value is a zero length    *)
(* (0, 0px, 0pt, 0em, 0%); 'padding-left:0px;color:red' accumulates to     *)
(* 'color:red' and 'border:0' to the empty string.                         *)
(***************************************************************************)
C16_ZeroBoxStylesPruned ==
  Accumulated =>
    /\ \A decl \in Range(Split(results[1], ";")) : ~IsZeroBoxDeclaration(decl)
    /\ styleStr = PaddingLeftZeroColorRed =>
         results[1] = <<"c", "o", "l", "o", "r", ":", "r", "e", "d">>
    /\ styleStr = BorderZero => results[1] = <<>>

C16_Witness ==
  /\ Accumulated
  /\ \E decl \in Range(Split(styleStr, ";")) : IsZeroBoxDeclaration(decl)
  /\ results[1] # <<>>
  /\ Len(results[1]) < Len(styleStr)


Classified == component = "classifier" /\ results # <<>>

\* the text is one recognised bullet glyph with nothing but white space around it
IsLoneGlyph(chars) ==
  \E i \in 1..Len(chars) :
    /\ chars[i] \in {"U+2022", "*", "-"}
    /\ \A j \in 1..Len(chars) : j # i => IsSpace(chars[j])

\* two children, both text, the first a lone bullet glyph
TwoTextsGlyphFirst(node) ==
  /\ Len(node.children) = 2
  /\ \A i \in 1..2 : node.children[i].type = "TEXT"
  /\ IsLoneGlyph(Characters(node.children[1]))

(***************************************************************************)
(* C17: a node is classified as a bullet item exactly when it is a visible *)
(* FRAME (not a group, component or instance) of horizontal arrangement    *)
(* with exactly two children, both text, the first child's trimmed content *)
(* being a single recognised bullet glyph; a first child of two glyphs     *)
(* does not make a bullet item.                                            *)
(***************************************************************************)
C17_BulletExactly ==
  Classified =>
    (results[1] <=> /\ doc[1].type = "FRAME"
                    /\ doc[1].visible
                    /\ doc[1].layoutMode = "HORIZONTAL"
                    /\ TwoTextsGlyphFirst(doc[1]))

\* C17 as stated: every horizontal-arrangement container of that shape is a
\* bullet item
C17_Original ==
  Classified =>
    (results[1] <=> /\ doc[1].type \in ContainerTypes
                    /\ doc[1].layoutMode = "HORIZONTAL"
                    /\ TwoTextsGlyphFirst(doc[1]))

C17_Witness ==
  /\ Classified
  /\ results[1]
  /\ Characters(doc[1].children[1]) = <<" ", "-", " ">>


\* the kinds renderNode has a rendering for
SupportedTypes == ContainerTypes \cup {"RECTANGLE", "ELLIPSE", "TEXT", "VECTOR", "LINE"}

\* the visible nodes of an unsupported kind that a walk of the forest reaches
UnsupportedIds(forest) ==
  {n.id : n \in {m \in Range(ShownNodesOf(forest)) : m.type \notin SupportedTypes}}

(***************************************************************************)
(* C18: whatever parse returns holds no element emitted for a visible node *)
(* of an unsupported kind: no row, no cell and no spacer stands for it,    *)
(* in a vertical stack as in a horizontal row.                             *)
(***************************************************************************)
C18_NothingForUnsupported ==
  Returned => \A e \in Range(ElementsOf(html)) : e.ref \notin UnsupportedIds(nodes)


\* the ids of the children a stack table holds a content row for, top to bottom
ContentRefs(e) ==
  LET at == {k \in 1..Len(e.kids) : e.kids[k].cls = "row"}
      nth(i) == CHOOSE k \in at : Cardinality({m \in at : m < k}) = i - 1
  IN [i \in 1..Cardinality(at) |-> e.kids[nth(i)].ref]

\* where the child of that id stands among the declared children of parent
DeclaredAt(parent, id) ==
  CHOOSE k \in 1..Len(parent.children) : parent.children[k].id = id

\* the content rows of stack table e follow before(a, b) on the children of
\* the node it was emitted for
RowsFollow(e, before(_, _, _)) ==
  LET parent == NodeById(nodes, e.ref)
      refs == ContentRefs(e)
  IN \A i, j \in 1..Len(refs) : i < j => before(parent, refs[i], refs[j])

AscendingY(parent, a, b) == NodeById(nodes, a).y <= NodeById(nodes, b).y

AsDeclared(parent, a, b) == DeclaredAt(parent, a) < DeclaredAt(parent, b)

(***************************************************************************)
(* C19: in a vertical stack, the content rows of a container that is not a *)
(* vertical auto-layout (groups, which carry no layout mode, included)     *)
(* stand in ascending y order of their children, whatever the declared     *)
(* order; those of a vertical auto-layout container stand in the declared  *)
(* order.                                                                  *)
(***************************************************************************)
C19_StackOrder ==
  Returned =>
    \A e \in StackTables :
      IF NodeById(nodes, e.ref).layoutMode = "VERTICAL"
      THEN RowsFollow(e, AsDeclared)
      ELSE RowsFollow(e, AscendingY)


\* the width budget every node of the subtree receives when node receives
\* budget and every container hands on what it received less its left and
\* right padding, as pairs <<id, budget>>
RECURSIVE BudgetsBelow(_, _)
BudgetsBelow(node, budget) ==
  {<<node.id, budget>>}
    \cup UNION {BudgetsBelow(node.children[i],
                             budget - node.paddingLeft - node.paddingRight) :
                  i \in 1..Len(node.children)}

\* parse hands every selected node its own width
Budgets == UNION {BudgetsBelow(nodes[i], nodes[i].width) : i \in 1..Len(nodes)}

BudgetOf(id) == (CHOOSE p \in Budgets : p[1] = id)[2]

\* the elements that carry the pixel width of the node they stand for
WidthBearing ==
  {e \in Range(ElementsOf(html)) :
     \/ e.tag = "table" /\ e.cls = "container"
     \/ e.tag = "img"}

(***************************************************************************)
(* C20: every child receives the budget its container received less the   *)
(* container's left and right padding, in vertical stacks and horizontal   *)
(* rows alike, and every pixel width emitted for a node (the table of a    *)
(* container, an image) is the smaller of its declared width and the       *)
(* budget it received.                                                     *)
(***************************************************************************)
C20_WidthWithinBudget ==
  component = "parser_img" /\ Returned =>
    \A e \in WidthBearing :
      e.w = PxDim(Min(Round(NodeById(nodes, e.ref).width), BudgetOf(e.ref)))


\* the fonts of the text runs a piece of markup holds: those of the runs of
\* every text node a run element was emitted for
RunFonts(markup) ==
  UNION {{n.segments[i].fontName : i \in 1..Len(n.segments)} :
           n \in {m \in Range(NodesOf(nodes)) :
                    /\ m.type = "TEXT"
                    /\ \E e \in Range(ElementsOf(markup)) : e.cls = "run" /\ e.ref = m.id}}

\* what the parse under way will return as far as text goes
TextMarkup == parseResult_img(nodes, "placeholder", <<>>)

(***************************************************************************)
(* C21: while parse runs in the plugin and when it has returned, no font   *)
(* load of the up-front batch is still under way and every font used by a  *)
(* text run that is rendered has been loaded, also when the runs of one    *)
(* text node use different fonts.                                          *)
(***************************************************************************)
C21_FontsLoadedFirst ==
  component = "plugin_img" /\ pc = "parsing" =>
    /\ loadingFonts = {}
    /\ RunFonts(TextMarkup) \subseteq loadedFonts

C21_BatchAwaited ==
  component = "plugin_img" /\ pc = "parsing" => loadingFonts = {}


BorderRendered == component = "border_img" /\ results # <<>>

(***************************************************************************)
(* C22: what is rendered for a node depends on its subtree and on the      *)
(* inherited context only: the border of the same node is the same         *)
(* whatever the fills of its real ancestors are.                           *)
(***************************************************************************)
C22_BorderIgnoresAncestors ==
  BorderRendered =>
    \A chain \in AncestorChains :
      getBorderStyles_img([subject EXCEPT !.ancestors = chain]) = results[1]

BackgroundFound == component \in {"ancestor_cta", "ancestor_img"} /\ results # <<>>

\* the kinds of fill the lookup of the revision under exercise takes notice of
KindsLookedAt ==
  IF component = "ancestor_cta" THEN {"SOLID"} ELSE {"SOLID", "GRADIENT_LINEAR"}

NotBelow99(paint) ==
  paint.opacity = Undefined \/ 100 * paint.opacity[1] >= 99 * paint.opacity[2]

\* the first visible fill of the kinds looked at
LeadingFill(fs) ==
  fs[CHOOSE i \in 1..Len(fs) :
       /\ fs[i].visible /\ fs[i].type \in KindsLookedAt
       /\ \A j \in 1..(i - 1) : ~(fs[j].visible /\ fs[j].type \in KindsLookedAt)]

\* the ancestor's first visible fill of the kinds looked at is opaque
LeadsOpaque(fs) ==
  /\ \E i \in 1..Len(fs) : fs[i].visible /\ fs[i].type \in KindsLookedAt
  /\ NotBelow99(LeadingFill(fs))

\* the ancestor has some visible solid fill that is opaque
HasOpaqueFill(fs) ==
  \E i \in 1..Len(fs) : fs[i].visible /\ fs[i].type = "SOLID" /\ NotBelow99(fs[i])

OpaqueFill(fs) ==
  fs[CHOOSE i \in 1..Len(fs) :
       /\ fs[i].visible /\ fs[i].type = "SOLID" /\ NotBelow99(fs[i])
       /\ \A j \in 1..(i - 1) : ~(fs[j].visible /\ fs[j].type = "SOLID" /\ NotBelow99(fs[j]))]

\* result is the colour colourOf gives for the nearest ancestor that
\* qualifies, or white when none does
NearestOrWhite(result, qualifies(_), colourOf(_)) ==
  LET chain == subject.ancestors
      hits == {k \in 1..Len(chain) : qualifies(chain[k])}
  IN IF hits = {} THEN result = White
     ELSE \E k \in hits : (\A j \in hits : k <= j) /\ result = colourOf(chain[k])

LeadingColour(fs) == LeadingFill(fs).color

OpaqueColour(fs) == OpaqueFill(fs).color

(***************************************************************************)
(* C23: the ancestor-background lookup returns the colour of the nearest   *)
(* strict ancestor, from the parent outward, whose first visible solid     *)
(* fill (in revision _img: first visible solid or gradient fill, a         *)
(* gradient counting by its first stop) has opacity 0.99 or more, and      *)
(* white (1,1,1) when the walk reaches the page without finding one.       *)
(***************************************************************************)
C23_NearestOpaqueAncestor ==
  BackgroundFound => NearestOrWhite(results[1], LeadsOpaque, LeadingColour)

\* C23 as stated: the nearest ancestor that has an opaque visible fill at all
C23_Original ==
  BackgroundFound => NearestOrWhite(results[1], HasOpaqueFill, OpaqueColour)

C23_Witness ==
  /\ BackgroundFound
  /\ Len(subject.ancestors) = 2
  /\ ~LeadsOpaque(subject.ancestors[1])
  /\ subject.ancestors[1] # <<>>
  /\ LeadsOpaque(subject.ancestors[2])
  /\ results[1] = Red


\* the characters that must not reach the output as they are
RawCharacters == {"&", "<", ">", "\n"}

(***************************************************************************)
(* C24: no text-node content in the output holds '&', '<', '>' or a        *)
(* newline as it is: each is replaced by '&amp;', '&lt;', '&gt;' or a line *)
(* break, once, on every path that emits text (single run, several runs,   *)
(* bullet item, call-to-action button).                                    *)
(***************************************************************************)
C24_TextEscaped ==
  component = "parser_cta" /\ Returned =>
    \A e \in Range(ElementsOf(html)) :
      \A i \in 1..Len(e.txt) : e.txt[i] \notin RawCharacters


Dispatched == component = "dispatch" /\ results # <<>>

\* how many of the three tests a container passes
TestsPassed == Cardinality({i \in 1..3 : results[i]})

(***************************************************************************)
(* C25: no node is more than one of icon group, bullet item and button     *)
(* candidate, so the branch renderNode takes is fixed by which test the    *)
(* node passes and not by the order of the tests: a visible icon group     *)
(* goes to the image placeholder, a bullet item to the bullet rendering, a *)
(* confirmed candidate to the button rendering, in the order of either     *)
(* revision.                                                               *)
(***************************************************************************)
C25_TestsExclusive ==
  Dispatched =>
    /\ TestsPassed <= 1
    /\ doc[1].visible =>
         /\ results[4] = "renderImagePlaceholder" <=> results[1]
         /\ results[4] = "renderBulletPoint" <=> results[2]
         /\ results[4] = "renderCta" <=> (results[3] /\ doc[1].id \in confirmedCtaIds)
         /\ results[5] = "renderBulletPoint" <=> results[2]
         /\ results[5] = "renderCta" <=> (results[3] /\ doc[1].id \in confirmedCtaIds)

C25_Witness ==
  /\ Dispatched
  /\ results[3]
  /\ results[4] = "renderCta"
  /\ results[5] = "renderCta"
  /\ doc[1].layoutMode = "HORIZONTAL"


\* a parse call of revision _img is under way or has returned
InPass_img == component \in {"parser_img", "plugin_img"} /\ (pc = "parsing" \/ parseCalls > 0)

\* the counter is the length of the asset list, whose k-th name is image-k
CounterIsLength ==
  /\ imageCounter = Len(imageAssets)
  /\ \A k \in 1..Len(imageAssets) : imageAssets[k].name = k

(***************************************************************************)
(* C26: at every point of a pass in download mode the counter is the       *)
(* length of the asset list and the names are image-1 .. image-n in order; *)
(* at every point of a pass in placeholder or base64 mode the asset list   *)
(* is empty.                                                               *)
(***************************************************************************)
C26_CounterAndAssets ==
  InPass_img =>
    /\ imageExportMode = "download" => CounterIsLength
    /\ imageExportMode \in {"placeholder", "base64"} => imageAssets = <<>>

\* C26, the first part in every state of the parser, whatever the mode
C26_CounterIsLength == component \in {"parser_img", "plugin_img"} => CounterIsLength

\* C26, the second part: an export that fails is not counted and stores nothing
C26_FailedExportStoresNothing ==
  [][(\E id \in inflight : inflight' = inflight \ {id} /\ ~outcome'[Len(outcome')].ok)
       => UNCHANGED <<imageAssets, imageCounter>>]_vars

\* C26, the third part for a pass over a list that is not empty
C26_NoAssetsUnlessDownload ==
  InPass_img /\ nodes # <<>> /\ imageExportMode \in {"placeholder", "base64"} =>
    imageAssets = <<>>


\* the step that handles the answer to an outstanding request for confirmations
AnswersRequest ==
  /\ component = "plugin_cta"
  /\ posted.type = "request-cta-confirmations"
  /\ handled'.type = "cta-confirmations-response"
  /\ posted'.type = "generated-html"

(***************************************************************************)
(* C27: the selection rendered when the answer to a request for            *)
(* confirmations is handled is the selection that was scanned for the      *)
(* request, whatever happened in between: its candidates are the ones      *)
(* that were offered, and every button in the markup posted stands for a   *)
(* candidate offered.                                                      *)
(***************************************************************************)
C27_RendersScannedSelection ==
  [][AnswersRequest =>
       /\ Ids(potentialCtas(selection)) = posted.ctas
       /\ \A e \in Range(ElementsOf(posted'.html)) :
            e.cls = "cta" => e.ref \in Range(posted.ctas)]_vars


\* the property and the value of a declaration, white space around them removed
PropertyOf(decl) == Trim(Split(decl, ":")[1])

ValueOf(decl) == Trim(Join(Tail(Split(decl, ":")), <<":">>))

\* a margin, padding or border property
IsBoxProperty(prop) ==
  StartsWith(prop, MarginWord) \/ StartsWith(prop, PaddingWord) \/ StartsWith(prop, BorderWord)

\* a declaration with a value that is not a zero length, in whatever unit, of
\* a box property
IsLasting(decl) ==
  /\ Len(Split(decl, ":")) >= 2
  /\ ValueOf(decl) # <<>>
  /\ ~(IsBoxProperty(PropertyOf(decl)) /\ ValueOf(decl) \in ZeroLengths_cta \cup ZeroLengths_img)

\* the last lasting declaration of its property in a style string
IsLastOf(decls, i) ==
  /\ IsLasting(decls[i])
  /\ \A j \in (i + 1)..Len(decls) :
       IsLasting(decls[j]) => PropertyOf(decls[j]) # PropertyOf(decls[i])

\* a style string holds a property, with the value of a declaration
Holds(out, decl) ==
  \E o \in Range(Split(out, ";")) :
    /\ PropertyOf(o) = PropertyOf(decl)
    /\ PropertyOf(decl) # FontFamilyWord
         => ValueOf(o) = ValueOf(decl)

(***************************************************************************)
(* C28: accumulation removes no declaration whose value is not a zero      *)
(* length of a margin, padding or border property: the last such           *)
(* declaration of every property of the input (border-radius:4px, color:   *)
(* red) is in the output with its value (a font list with its property).   *)
(***************************************************************************)
C28_NothingElseRemoved ==
  Accumulated =>
    LET decls == Split(styleStr, ";")
    IN \A i \in 1..Len(decls) : IsLastOf(decls, i) => Holds(results[1], decls[i])

\* C28 for the accumulation of src/code.ts alone
C28_NothingElseRemoved_cta == component = "style_cta" => C28_NothingElseRemoved


\* a whole number of pixels, one at least
IsPositiveInteger(v) == v >= Px(1) /\ v % Unit = 0

(***************************************************************************)
(* C29: every img element of the output, placeholder or exported, has a    *)
(* width that is a whole number of pixels and at least 1, whatever width   *)
(* budget the node was rendered with.                                      *)
(***************************************************************************)
C29_ImageWidthPositive ==
  Returned =>
    \A e \in Range(ElementsOf(html)) :
      e.tag = "img" => e.w[1] = "px" /\ IsPositiveInteger(e.w[2])

\* C29 for the placeholder of src/code.ts alone: one pixel at least
C29_AtLeastOne_cta ==
  component = "parser_cta" /\ Returned =>
    \A e \in Range(ElementsOf(html)) : e.tag = "img" => e.w[2] >= Px(1)


(***************************************************************************)
(* C30: in what parse returns for several nodes, a filler row stands only  *)
(* between the rows of two rendered nodes: it is neither the first nor the *)
(* last row and the rows next to it are node rows -- also when the topmost *)
(* selected nodes are invisible or render to nothing.                      *)
(***************************************************************************)
C30_FillerOnlyBetweenRows ==
  ReturnedMulti =>
    \A k \in 1..Len(StackedRows) :
      StackedRows[k].cls = "filler" =>
        /\ 1 < k /\ k < Len(StackedRows)
        /\ StackedRows[k - 1].cls = "row"
        /\ StackedRows[k + 1].cls = "row"

\* C30, the first row alone
C30_FirstRowNotFiller ==
  ReturnedMulti /\ StackedRows # <<>> => StackedRows[1].cls # "filler"

====
